---- MODULE Spec2Model ----
(***************************************************************************)
(* State-machine model of gts-common's lock-free transport primitives:     *)
(*   - transport/src/sync/lfringspsc.rs : single-producer single-consumer  *)
(*     ring (SpScRingSender::send, SpScRingReceiver::try_recv)             *)
(*   - transport/src/sync/lfspmc.rs     : single-producer multi-consumer   *)
(*     "latest value" register (SpMcSender::send_int,                      *)
(*     SpMcReceiver::try_recv_int, the *_multi retry loops, Clone)         *)
(* Every atomic load/store of the source is one step.  The non-atomic      *)
(* copy_nonoverlapping of a record is NWords separate word copies, so a    *)
(* copy that overlaps a write can return a mix of two records.  Atomics    *)
(* are Release/Acquire in the source and interleave sequentially here.     *)
(***************************************************************************)
EXTENDS Integers, Sequences, FiniteSets, TLC

(* ------------------------------ bounds --------------------------------- *)
\* words copied one at a time by one copy_nonoverlapping of a record
NWords == 2
\* RSIZE of the ring under test (test_simple_with_threads uses 3)
RSIZE == 3
\* cap on the number of records the ring producer gets accepted
MaxRingSends == 4
\* NT, the number of data slots of the SPMC region (the tests use 1 and 2)
NT == 1
\* cap on the number of send_info / send_slot calls over all channels
MaxSends == 3
\* the same cap where two receivers run
MaxCloneSends == 2
\* the same cap where a receiver runs the retry loops
MaxHangSends == 1
\* rounds the ping-pong client plays before it sends the closing record
MaxRounds == 2
\* the largest reading the clock of the log client gives
MaxClock == 3
\* cap on the number of log / log_same calls on the log client
MaxLogCalls == 4
\* cap on the number of create / connect / drop calls on named segments
MaxShmOps == 4
\* cap on the number of pop_front calls on a mock backend
MaxPops == 3
\* cap on the number of log calls on a client over a mock backend
MaxMockLogs == 2

Words == 0 .. (NWords - 1)
\* payloads a caller may pass to send; 0 is the content of zeroed memory
Values == {1, 2}
\* a record whose every word carries payload v
Rec(v) == [w \in Words |-> v]
\* a word of a MaybeUninit buffer that was never written
UNINIT == -1
\* Option<u32>
None == << >>
Some(x) == << x >>

VARIABLES
    \* ---- SpScRingData (shared region) ----
    read_done_seqnum,
    write_done_seqnum,
    ring_data,
    \* ---- SpScRingSender ----
    last_send_seqnum,
    tx,                 \* the running send call: pc, new_data, next_seqnum, w
    tx_res,             \* what the last completed send returned
    \* ---- SpScRingReceiver ----
    last_read_seqnum,
    last_copy,
    rx,                 \* the running try_recv call: pc, send_seqnum, next_read, w
    rx_res,             \* what the last completed try_recv returned
    \* ---- history of the ring (not program state) ----
    sent,               \* payloads of the sends that returned Ok, in order
    rcvd,               \* records returned by successful try_recv, in order
    loadAt,             \* << Len(sent), Len(rcvd) >> when the last send loaded read_done
    \* ---- SpMcData (shared region), one entry per channel ----
    begin,
    data,
    end,
    \* ---- SpMcSender ----
    seqnum,             \* seqnum (info) and seqnum_slot[i]
    snd,                \* the send_int call: pc, ch, new_data, seqnum_to_store, w, and
                        \* res, what the last completed call returned
    \* ---- SpMcReceiver, one entry per receiver ----
    alive,              \* the receiver has been constructed (new or clone)
    last_read_success,  \* last_read_success_info and last_read_success_slot[i]
    lastcopy,           \* lastcopy_info and lastcopy_slot[i]
    rcv,                \* the running call: pc, ch, end, w, multi, iter
    rcv_res,            \* what the last completed call returned
    \* ---- history of the register (not program state) ----
    pub,                \* per channel, the payloads passed to send_*, in order
    calm,               \* no producer step on the receiver's channel since its attempt began
    quiet,              \* per channel: an attempt completed and no producer step since
    got,                \* per channel: Len(pub) when the last successful attempt completed
    ok_tags,            \* per channel: tags of the last two successful attempts
    \* ---- test_heavy_pingpong: two regions, a client and a server thread ----
    pp_reg,             \* per register: begin, data, end of its info channel
    pp_pty,             \* per thread: its sender, its receiver and its position
    pp_pub,             \* history: per register, the records passed to send_info
    pp_echo,            \* history: per round, << record sent, record received >>
    \* ---- LogClient ----
    last_ts,            \* Cell<(u64, u32)>: << timestamp, seqid >>
    log_res,            \* what the last log / log_same call returned
    clock,              \* the last reading minstant gave to this client (0: none yet)
    stamped,            \* history: the LogEventTs of every call of LogBackend::log
    log_call,           \* history: the last call on the client, << method, event >>
    rejected,           \* history: the << timestamp, seqid >> of the calls the backend rejected
    \* ---- DualThreadLogBacked ----
    running_flag_alpha, \* AtomicBool polled by the drain thread (run_flag of the backend)
    running_flag_beta,  \* AtomicBool polled by the writer thread
    alpha,              \* position of the drain thread
    beta,               \* position of the writer thread
    queue,              \* the mpsc channel from the drain thread to the writer thread
    logs,               \* the writer's buffer
    elapsed,            \* last_send.elapsed() > 5000 ms
    sink,               \* the records written out by the writer
    dropping,           \* position of Drop::drop on the owner's thread
    log_rets,           \* history: what each DualThreadLogBacked::log call returned
    \* ---- ShmemHolder and the shared-memory names of the host ----
    shm_names,          \* per name: the segment it refers to, 0 when the name does not exist
    holders,            \* the live ShmemHolder values
    shm_segs,           \* number of segments made so far
    shm_res,            \* history: the last call, its number, name and result
    \* ---- MockLogBacked and MockThreadLogBacked under a LogClient ----
    backend,            \* which backend the client was built over ("none": not built yet)
    mock_queue,         \* MockLogBacked::queue
    queue_rx,           \* the mpsc channel of MockThreadLogBacked
    run_flag,           \* Mutex<bool> of MockThreadLogBacked: true tells the thread to stop
    drain,              \* position of the thread of MockThreadLogBacked
    mock_drop,          \* position of Drop::drop of MockThreadLogBacked
    popped              \* history: what each pop_front call returned

spscVars == << read_done_seqnum, write_done_seqnum, ring_data, last_send_seqnum,
               tx, tx_res, last_read_seqnum, last_copy, rx, rx_res,
               sent, rcvd, loadAt >>

spmcVars == << begin, data, end, seqnum, snd, alive, last_read_success, lastcopy,
               rcv, rcv_res, pub, calm, quiet, got, ok_tags >>

ppVars == << pp_reg, pp_pty, pp_pub, pp_echo >>

logVars == << last_ts, log_res, clock, stamped, log_call, rejected >>

dtVars == << running_flag_alpha, running_flag_beta, alpha, beta, queue, logs,
            elapsed, sink, dropping, log_rets >>

shmVars == << shm_names, holders, shm_segs, shm_res >>

mockVars == << backend, mock_queue, queue_rx, run_flag, drain, mock_drop, popped >>

vars == << spscVars, spmcVars, ppVars, logVars, dtVars, shmVars, mockVars >>

\* what a step of the ring leaves alone, and what a step of the register leaves alone
outsideRing == << spmcVars, ppVars, logVars, dtVars, shmVars, mockVars >>
outsideSpMc == << spscVars, ppVars, logVars, dtVars, shmVars, mockVars >>
outsidePingPong == << spscVars, spmcVars, logVars, dtVars, shmVars, mockVars >>
outsideLogger == << spscVars, spmcVars, ppVars, dtVars, shmVars, mockVars >>
outsideDualThread == << spmcVars, ppVars, logVars, shmVars, mockVars >>
outsideShmem == << spscVars, spmcVars, ppVars, logVars, dtVars, mockVars >>
outsideMock == << spmcVars, ppVars, dtVars, shmVars >>

(* ============================ SPSC ring ================================ *)

RING_SIZE == RSIZE

TxIdle == [pc |-> "idle", new_data |-> 0, next_seqnum |-> 0, w |-> 0]
RxIdle == [pc |-> "idle", send_seqnum |-> 0, next_read |-> 0, w |-> 0]

\* MemChunkHolder::zeroed + SpScRingSender::new + SpScRingReceiver::new
SpScInit ==
    /\ read_done_seqnum = 0
    /\ write_done_seqnum = 0
    /\ ring_data = [i \in 0 .. (RSIZE - 1) |-> Rec(0)]
    /\ last_send_seqnum = 0
    /\ tx = TxIdle
    /\ tx_res = "none"
    /\ last_read_seqnum = None
    /\ last_copy = [w \in Words |-> UNINIT]
    /\ rx = RxIdle
    /\ rx_res = "none"
    /\ sent = << >>
    /\ rcvd = << >>
    /\ loadAt = << 0, 0 >>

\* a producer that tests against the slot it filled last, not the one it fills next
SendBlocksOnLast(read_seqnum, next_seqnum) == read_seqnum = last_send_seqnum

\* a producer that never reports the ring full
SendNeverBlocks(read_seqnum, next_seqnum) == FALSE

\* the producer's full test, line 66: read_seqnum == next_seqnum
SendWouldBlock(read_seqnum, next_seqnum) == read_seqnum = next_seqnum


\* a producer that advances last_send_seqnum before it tests for a full ring
SendLoadCommitsFirst(v) ==
    /\ tx.pc = "idle"
    /\ Len(sent) < MaxRingSends
    /\ LET next_seqnum == (last_send_seqnum + 1) % RING_SIZE
           read_seqnum == read_done_seqnum
       IN  /\ loadAt' = << Len(sent), Len(rcvd) >>
           /\ last_send_seqnum' = next_seqnum
           /\ IF SendWouldBlock(read_seqnum, next_seqnum)
              THEN /\ tx_res' = "WouldBlock"
                   /\ UNCHANGED tx
              ELSE /\ tx' = [pc |-> "copy", new_data |-> v,
                             next_seqnum |-> next_seqnum, w |-> 0]
                   /\ tx_res' = "running"
    /\ UNCHANGED << read_done_seqnum, write_done_seqnum, ring_data,
                    last_read_seqnum, last_copy, rx, rx_res, sent, rcvd,
                    outsideRing >>

\* send, lines 61-73: next_seqnum, the Acquire load of read_done_seqnum, the
\* WouldBlock return, and the update of last_send_seqnum
SendLoad(v) ==
    /\ tx.pc = "idle"
    /\ Len(sent) < MaxRingSends
    /\ LET next_seqnum == (last_send_seqnum + 1) % RING_SIZE
           read_seqnum == read_done_seqnum
       IN  /\ loadAt' = << Len(sent), Len(rcvd) >>
           /\ IF SendWouldBlock(read_seqnum, next_seqnum)
              THEN /\ tx_res' = "WouldBlock"
                   /\ UNCHANGED << tx, last_send_seqnum >>
              ELSE /\ last_send_seqnum' = next_seqnum
                   /\ tx' = [pc |-> "copy", new_data |-> v,
                             next_seqnum |-> next_seqnum, w |-> 0]
                   /\ tx_res' = "running"
    /\ UNCHANGED << read_done_seqnum, write_done_seqnum, ring_data,
                    last_read_seqnum, last_copy, rx, rx_res, sent, rcvd,
                    outsideRing >>

\* a producer that holds its copy back while the consumer is inside try_recv
SendCopyWaitsForConsumer ==
    /\ tx.pc = "copy"
    /\ rx.pc = "idle"
    /\ ring_data' = [ring_data EXCEPT ![tx.next_seqnum][tx.w] = tx.new_data]
    /\ tx' = IF tx.w + 1 = NWords
             THEN [tx EXCEPT !.pc = "store"]
             ELSE [tx EXCEPT !.w = tx.w + 1]
    /\ UNCHANGED << read_done_seqnum, write_done_seqnum, last_send_seqnum, tx_res,
                    last_read_seqnum, last_copy, rx, rx_res, sent, rcvd, loadAt,
                    outsideRing >>

\* send, lines 75-79: copy_nonoverlapping(new_data, data[next_seqnum]), a word a step
SendCopy ==
    /\ tx.pc = "copy"
    /\ ring_data' = [ring_data EXCEPT ![tx.next_seqnum][tx.w] = tx.new_data]
    /\ tx' = IF tx.w + 1 = NWords
             THEN [tx EXCEPT !.pc = "store"]
             ELSE [tx EXCEPT !.w = tx.w + 1]
    /\ UNCHANGED << read_done_seqnum, write_done_seqnum, last_send_seqnum, tx_res,
                    last_read_seqnum, last_copy, rx, rx_res, sent, rcvd, loadAt,
                    outsideRing >>

\* send, lines 80-85: the Release store of write_done_seqnum, return Ok
SendStore ==
    /\ tx.pc = "store"
    /\ write_done_seqnum' = last_send_seqnum
    /\ tx' = TxIdle
    /\ tx_res' = "Ok"
    /\ sent' = Append(sent, tx.new_data)
    /\ UNCHANGED << read_done_seqnum, ring_data, last_send_seqnum,
                    last_read_seqnum, last_copy, rx, rx_res, rcvd, loadAt,
                    outsideRing >>

\* try_recv, line 126: the Acquire load of write_done_seqnum
RecvLoadWrite ==
    /\ rx.pc = "idle"
    /\ rx' = [rx EXCEPT !.pc = "loadread", !.send_seqnum = write_done_seqnum]
    /\ rx_res' = "running"
    /\ UNCHANGED << read_done_seqnum, write_done_seqnum, ring_data, last_send_seqnum,
                    tx, tx_res, last_read_seqnum, last_copy, sent, rcvd, loadAt,
                    outsideRing >>

\* a consumer that copies the newest record (data[write_seqnum]) instead of the oldest
NextReadNewest(read_seqnum) == rx.send_seqnum

\* try_recv, line 137: next_read
NextRead(read_seqnum) == (read_seqnum + 1) % RING_SIZE

\* a consumer that never reports the ring empty
RecvNeverBlocks(send_seqnum, read_seqnum) == FALSE

\* the consumer's empty test, line 134: send_seqnum == read_seqnum
RecvWouldBlock(send_seqnum, read_seqnum) == send_seqnum = read_seqnum


\* a consumer that compares its two loads with the counters again and reports a
\* send that completed in between as Inconsistent
RecvLoadReadChecksTorn ==
    /\ rx.pc = "loadread"
    /\ LET read_seqnum == read_done_seqnum
       IN  IF rx.send_seqnum # write_done_seqnum
           THEN /\ rx' = RxIdle
                /\ rx_res' = "Inconsistent"
           ELSE IF RecvWouldBlock(rx.send_seqnum, read_seqnum)
           THEN /\ rx' = RxIdle
                /\ rx_res' = "WouldBlock"
           ELSE /\ rx' = [rx EXCEPT !.pc = "copy",
                                    !.next_read = NextRead(read_seqnum),
                                    !.w = 0]
                /\ UNCHANGED rx_res
    /\ UNCHANGED << read_done_seqnum, write_done_seqnum, ring_data, last_send_seqnum,
                    tx, tx_res, last_read_seqnum, last_copy, sent, rcvd, loadAt,
                    outsideRing >>

\* try_recv, lines 127-137: the Acquire load of read_done_seqnum, the WouldBlock
\* return, next_read
RecvLoadRead ==
    /\ rx.pc = "loadread"
    /\ LET read_seqnum == read_done_seqnum
       IN  IF RecvWouldBlock(rx.send_seqnum, read_seqnum)
           THEN /\ rx' = RxIdle
                /\ rx_res' = "WouldBlock"
           ELSE /\ rx' = [rx EXCEPT !.pc = "copy",
                                    !.next_read = NextRead(read_seqnum),
                                    !.w = 0]
                /\ UNCHANGED rx_res
    /\ UNCHANGED << read_done_seqnum, write_done_seqnum, ring_data, last_send_seqnum,
                    tx, tx_res, last_read_seqnum, last_copy, sent, rcvd, loadAt,
                    outsideRing >>

\* a consumer that moves the record out of the slot, zeroing each word it took
RecvCopyMoves ==
    /\ rx.pc = "copy"
    /\ last_copy' = [last_copy EXCEPT ![rx.w] = ring_data[rx.next_read][rx.w]]
    /\ ring_data' = [ring_data EXCEPT ![rx.next_read][rx.w] = 0]
    /\ rx' = IF rx.w + 1 = NWords
             THEN [rx EXCEPT !.pc = "store"]
             ELSE [rx EXCEPT !.w = rx.w + 1]
    /\ UNCHANGED << read_done_seqnum, write_done_seqnum, last_send_seqnum,
                    tx, tx_res, last_read_seqnum, rx_res, sent, rcvd, loadAt,
                    outsideRing >>

\* try_recv, lines 141-145: copy_nonoverlapping(data[next_read], last_copy), a word a step
RecvCopy ==
    /\ rx.pc = "copy"
    /\ last_copy' = [last_copy EXCEPT ![rx.w] = ring_data[rx.next_read][rx.w]]
    /\ rx' = IF rx.w + 1 = NWords
             THEN [rx EXCEPT !.pc = "store"]
             ELSE [rx EXCEPT !.w = rx.w + 1]
    /\ UNCHANGED << read_done_seqnum, write_done_seqnum, ring_data, last_send_seqnum,
                    tx, tx_res, last_read_seqnum, rx_res, sent, rcvd, loadAt,
                    outsideRing >>

\* try_recv, lines 147-153: the Release store of read_done_seqnum, return Ok(&last_copy)
\* (last_read_seqnum is not assigned anywhere in try_recv)
RecvStore ==
    /\ rx.pc = "store"
    /\ read_done_seqnum' = rx.next_read
    /\ rx' = RxIdle
    /\ rx_res' = "Ok"
    /\ rcvd' = Append(rcvd, last_copy)
    /\ UNCHANGED << write_done_seqnum, ring_data, last_send_seqnum, tx, tx_res,
                    last_read_seqnum, last_copy, sent, loadAt,
                    outsideRing >>

\* get_last_value, lines 110-115
get_last_value == IF last_read_seqnum # None THEN Some(last_copy) ELSE None

SpScNext ==
    \/ \E v \in Values : SendLoad(v)
    \/ SendCopy
    \/ SendStore
    \/ RecvLoadWrite
    \/ RecvLoadRead
    \/ RecvCopy
    \/ RecvStore

(* ========================= SPMC latest-value register ================== *)

VALUE_BITS == 16777216
GOOD_BIT == 16777216
MAX_ITER_TILL_HANG == 1000

\* channel 0 is info, channel i >= 1 is slots[i - 1]
Channels == 0 .. NT
Receivers == {"rx1", "rx2"}

\* u32 bit operators, bit by bit
RECURSIVE BitAnd(_, _)
BitAnd(a, b) ==
    IF a = 0 \/ b = 0 THEN 0
    ELSE 2 * BitAnd(a \div 2, b \div 2) + (IF a % 2 = 1 /\ b % 2 = 1 THEN 1 ELSE 0)

RECURSIVE BitOr(_, _)
BitOr(a, b) ==
    IF a = 0 THEN b
    ELSE IF b = 0 THEN a
    ELSE 2 * BitOr(a \div 2, b \div 2) + (IF a % 2 = 1 \/ b % 2 = 1 THEN 1 ELSE 0)

SndIdle == [pc |-> "idle", ch |-> 0, new_data |-> 0, seqnum_to_store |-> 0, w |-> 0,
            res |-> "none"]
RcvIdle == [pc |-> "idle", ch |-> 0, end |-> 0, w |-> 0, multi |-> FALSE, iter |-> 0]

\* MemChunkHolder::zeroed / ShmemHolder::create, SpMcSender::new, SpMcReceiver::new
\* for rx1; rx2 does not exist until it is cloned
SpMcInit ==
    /\ begin = [ch \in Channels |-> 0]
    /\ data = [ch \in Channels |-> Rec(0)]
    /\ end = [ch \in Channels |-> 0]
    /\ seqnum = [ch \in Channels |-> 0]
    /\ snd = SndIdle
    /\ alive = [c \in Receivers |-> c = "rx1"]
    /\ last_read_success = [c \in Receivers |-> [ch \in Channels |-> None]]
    /\ lastcopy = [c \in Receivers |-> [ch \in Channels |-> [w \in Words |-> UNINIT]]]
    /\ rcv = [c \in Receivers |-> RcvIdle]
    /\ rcv_res = [c \in Receivers |-> "none"]
    /\ pub = [ch \in Channels |-> << >>]
    /\ calm = [c \in Receivers |-> FALSE]
    /\ quiet = [c \in Receivers |-> [ch \in Channels |-> FALSE]]
    /\ got = [c \in Receivers |-> [ch \in Channels |-> 0]]
    /\ ok_tags = [c \in Receivers |-> [ch \in Channels |-> << >>]]

RECURSIVE SentUpTo(_)
SentUpTo(n) == IF n < 0 THEN 0 ELSE Len(pub[n]) + SentUpTo(n - 1)
\* send_* calls made so far, over all channels
TotalSent == SentUpTo(NT)

\* history bookkeeping of a producer step on channel ch
ProducerTouches(ch) ==
    /\ calm' = [c \in Receivers |-> IF rcv[c].ch = ch THEN FALSE ELSE calm[c]]
    /\ quiet' = [c \in Receivers |-> [quiet[c] EXCEPT ![ch] = FALSE]]

\* a producer that does not advance its counter
NextSeqnumStuck(s) == s

\* send_int, line 167: *seqnum = (*seqnum + 1) % VALUE_BITS
NextSeqnum(s) == (s + 1) % VALUE_BITS

\* a producer that stores the bare counter
SeqnumToStoreBare(s) == s

\* send_int, line 168: seqnum_to_store = *seqnum | GOOD_BIT
SeqnumToStore(s) == BitOr(s, GOOD_BIT)

\* a producer that stores end together with begin, before the data copy
EndStoredWithBegin(ch, tag) == [end EXCEPT ![ch] = tag]

\* send_int, line 171: the store of begin leaves end alone
EndAfterBeginStore(ch, tag) == end

\* send_info / send_slot(idx) entering send_int, lines 141-171: the counter
\* update and the Release store of begin
SendIntBegin(ch, v) ==
    /\ snd.pc = "idle"
    /\ TotalSent < MaxSends
    /\ LET s == NextSeqnum(seqnum[ch])
           tag == SeqnumToStore(s)
       IN  /\ seqnum' = [seqnum EXCEPT ![ch] = s]
           /\ begin' = [begin EXCEPT ![ch] = tag]
           /\ end' = EndAfterBeginStore(ch, tag)
           /\ snd' = [pc |-> "data", ch |-> ch, new_data |-> v,
                      seqnum_to_store |-> tag, w |-> 0, res |-> "running"]
    /\ pub' = [pub EXCEPT ![ch] = Append(pub[ch], v)]
    /\ ProducerTouches(ch)
    /\ UNCHANGED << data, alive, last_read_success, lastcopy, rcv, rcv_res,
                    got, ok_tags, outsideSpMc >>

\* a producer that holds its copy back while a receiver is inside a call
SendIntDataWaitsForReaders ==
    /\ snd.pc = "data"
    /\ \A c \in Receivers : rcv[c].pc = "idle"
    /\ data' = [data EXCEPT ![snd.ch][snd.w] = snd.new_data]
    /\ snd' = IF snd.w + 1 = NWords
              THEN [snd EXCEPT !.pc = "end"]
              ELSE [snd EXCEPT !.w = snd.w + 1]
    /\ ProducerTouches(snd.ch)
    /\ UNCHANGED << begin, end, seqnum, alive, last_read_success, lastcopy, rcv,
                    rcv_res, pub, got, ok_tags, outsideSpMc >>

\* send_int, line 180: copy_nonoverlapping(new_data, data), a word a step
SendIntData ==
    /\ snd.pc = "data"
    /\ data' = [data EXCEPT ![snd.ch][snd.w] = snd.new_data]
    /\ snd' = IF snd.w + 1 = NWords
              THEN [snd EXCEPT !.pc = "end"]
              ELSE [snd EXCEPT !.w = snd.w + 1]
    /\ ProducerTouches(snd.ch)
    /\ UNCHANGED << begin, end, seqnum, alive, last_read_success, lastcopy, rcv,
                    rcv_res, pub, got, ok_tags, outsideSpMc >>


\* a send_slot whose closing store goes to the info channel's end
SendIntEndOnInfo ==
    /\ snd.pc = "end"
    /\ end' = [end EXCEPT ![0] = snd.seqnum_to_store]
    /\ snd' = [snd EXCEPT !.pc = "idle", !.res = "Ok"]
    /\ ProducerTouches(snd.ch)
    /\ UNCHANGED << begin, data, seqnum, alive, last_read_success, lastcopy, rcv,
                    rcv_res, pub, got, ok_tags, outsideSpMc >>


\* a send that returns Ok without its closing store of end
SendIntEndSkipsStore ==
    /\ snd.pc = "end"
    /\ snd' = [snd EXCEPT !.pc = "idle", !.res = "Ok"]
    /\ ProducerTouches(snd.ch)
    /\ UNCHANGED << begin, data, end, seqnum, alive, last_read_success, lastcopy, rcv,
                    rcv_res, pub, got, ok_tags, outsideSpMc >>

\* send_int, lines 181-184: the Release store of end, return Ok
SendIntEnd ==
    /\ snd.pc = "end"
    /\ end' = [end EXCEPT ![snd.ch] = snd.seqnum_to_store]
    /\ snd' = [snd EXCEPT !.pc = "idle", !.res = "Ok"]
    /\ ProducerTouches(snd.ch)
    /\ UNCHANGED << begin, data, seqnum, alive, last_read_success, lastcopy, rcv,
                    rcv_res, pub, got, ok_tags, outsideSpMc >>

\* a clone that takes the source's last_read_success along
CloneCopiesLastSeen(src) == last_read_success[src]

\* Clone::clone, lines 207-208: last_read_success_info and _slot start as None
CloneLastSeen(src) == [ch \in Channels |-> None]

\* Clone for SpMcReceiver, lines 204-212
CloneReceiver(src, c) ==
    /\ alive[src] /\ rcv[src].pc = "idle"
    /\ ~alive[c]
    /\ alive' = [alive EXCEPT ![c] = TRUE]
    /\ last_read_success' = [last_read_success EXCEPT ![c] = CloneLastSeen(src)]
    /\ lastcopy' = [lastcopy EXCEPT ![c] = [ch \in Channels |-> [w \in Words |-> UNINIT]]]
    /\ UNCHANGED << begin, data, end, seqnum, snd, rcv, rcv_res, pub, calm, quiet,
                    got, ok_tags, outsideSpMc >>

\* try_recv_info / try_recv_slot(idx), lines 287-307, entering try_recv_int once,
\* up to line 322: the Acquire load of end
TryRecv(c, ch) ==
    /\ alive[c] /\ rcv[c].pc = "idle"
    /\ rcv' = [rcv EXCEPT ![c] = [pc |-> "data", ch |-> ch, end |-> end[ch], w |-> 0,
                                  multi |-> FALSE, iter |-> 0]]
    /\ rcv_res' = [rcv_res EXCEPT ![c] = "running"]
    /\ calm' = [calm EXCEPT ![c] = TRUE]
    /\ UNCHANGED << begin, data, end, seqnum, snd, alive, last_read_success, lastcopy,
                    pub, quiet, got, ok_tags, outsideSpMc >>

\* try_recv_info_multi / try_recv_slot_multi(idx), lines 259-285, entering the
\* loop and its first try_recv_int, up to line 322: the Acquire load of end
TryRecvMulti(c, ch) ==
    /\ alive[c] /\ rcv[c].pc = "idle"
    /\ rcv' = [rcv EXCEPT ![c] = [pc |-> "data", ch |-> ch, end |-> end[ch], w |-> 0,
                                  multi |-> TRUE, iter |-> 0]]
    /\ rcv_res' = [rcv_res EXCEPT ![c] = "running"]
    /\ calm' = [calm EXCEPT ![c] = TRUE]
    /\ UNCHANGED << begin, data, end, seqnum, snd, alive, last_read_success, lastcopy,
                    pub, quiet, got, ok_tags, outsideSpMc >>

\* a later round of a _multi loop entering try_recv_int, line 322: the Acquire
\* load of end
RecvIntLoadEnd(c) ==
    /\ rcv[c].pc = "end"
    /\ rcv' = [rcv EXCEPT ![c].pc = "data", ![c].end = end[rcv[c].ch], ![c].w = 0]
    /\ calm' = [calm EXCEPT ![c] = TRUE]
    /\ UNCHANGED << begin, data, end, seqnum, snd, alive, last_read_success, lastcopy,
                    rcv_res, pub, quiet, got, ok_tags, outsideSpMc >>

\* try_recv_int, line 323: copy_nonoverlapping(data, localcopy), a word a step
RecvIntCopy(c) ==
    /\ rcv[c].pc = "data"
    /\ lastcopy' = [lastcopy EXCEPT ![c][rcv[c].ch][rcv[c].w] = data[rcv[c].ch][rcv[c].w]]
    /\ rcv' = IF rcv[c].w + 1 = NWords
              THEN [rcv EXCEPT ![c].pc = "begin"]
              ELSE [rcv EXCEPT ![c].w = rcv[c].w + 1]
    /\ UNCHANGED << begin, data, end, seqnum, snd, alive, last_read_success,
                    rcv_res, pub, calm, quiet, got, ok_tags, outsideSpMc >>

\* a receiver that does not compare begin with end
RecvOutcomeNoTornCheck(b, e, last) ==
    IF BitAnd(b, GOOD_BIT) = 0 THEN "Unitialized"
    ELSE IF Some(b) = last THEN "WouldBlock"
    ELSE "Ok"

\* a receiver that does not compare the tag with last_success_read
RecvOutcomeNoStaleCheck(b, e, last) ==
    IF b # e THEN "Inconsistent"
    ELSE IF BitAnd(b, GOOD_BIT) = 0 THEN "Unitialized"
    ELSE "Ok"

\* a receiver that does not test the GOOD bit
RecvOutcomeNoGoodCheck(b, e, last) ==
    IF b # e THEN "Inconsistent"
    ELSE IF Some(b) = last THEN "WouldBlock"
    ELSE "Ok"

\* try_recv_int, lines 332-349: what one attempt returns
RecvOutcome(b, e, last) ==
    IF b # e THEN "Inconsistent"
    ELSE IF BitAnd(b, GOOD_BIT) = 0 THEN "Unitialized"
    ELSE IF Some(b) = last THEN "WouldBlock"
    ELSE "Ok"

\* a receiver that also invalidates last_success_read when it returns WouldBlock
NewLastSeenClearsOnWouldBlock(outcome, b, last) ==
    IF outcome = "Ok" THEN Some(b) ELSE None

\* a receiver that keeps last_success_read when it returns Inconsistent
NewLastSeenKeptOnTorn(outcome, b, last) ==
    IF outcome = "Ok" THEN Some(b) ELSE last

\* try_recv_int, lines 333 and 347: what the attempt leaves in last_success_read
NewLastSeen(outcome, b, last) ==
    IF outcome = "Inconsistent" THEN None
    ELSE IF outcome = "Ok" THEN Some(b)
    ELSE last

\* a retry loop that also goes round again on WouldBlock
TryAgainOnWouldBlock(multi, outcome) == multi /\ outcome \in {"Inconsistent", "WouldBlock"}

\* try_recv_*_multi, lines 261-267 and 275-281: only Inconsistent continues the loop
TryAgain(multi, outcome) == multi /\ outcome = "Inconsistent"

\* try_recv_int, lines 324-349: the Acquire load of begin and the attempt's
\* outcome; for a _multi call, lines 260-270: return, or go round the loop again
RecvIntLoadBegin(c) ==
    /\ rcv[c].pc = "begin"
    /\ LET ch == rcv[c].ch
           last == last_read_success[c][ch]
           b == begin[ch]
           outcome == RecvOutcome(b, rcv[c].end, last)
           again == TryAgain(rcv[c].multi, outcome)
       IN  /\ last_read_success' =
                  [last_read_success EXCEPT ![c][ch] = NewLastSeen(outcome, b, last)]
           /\ IF again /\ rcv[c].iter + 1 < MAX_ITER_TILL_HANG
              THEN /\ rcv' = [rcv EXCEPT ![c].pc = "end", ![c].iter = rcv[c].iter + 1]
                   /\ rcv_res' = rcv_res
              ELSE /\ rcv' = [rcv EXCEPT ![c].pc = "idle"]
                   /\ rcv_res' = [rcv_res EXCEPT ![c] =
                                     IF again THEN "InconsistentHang" ELSE outcome]
           /\ quiet' = [quiet EXCEPT ![c][ch] = TRUE]
           /\ got' = IF outcome = "Ok"
                     THEN [got EXCEPT ![c][ch] = Len(pub[ch])]
                     ELSE got
           /\ ok_tags' = IF outcome = "Ok"
                         THEN [ok_tags EXCEPT ![c][ch] =
                                  IF ok_tags[c][ch] = << >> THEN << b >>
                                  ELSE << ok_tags[c][ch][Len(ok_tags[c][ch])], b >>]
                         ELSE ok_tags
    /\ UNCHANGED << begin, data, end, seqnum, snd, alive, lastcopy, pub, calm,
                    outsideSpMc >>

\* a get_last_* that hands out the buffer without looking at last_read_success
GetLastUnguarded(c, ch) == Some(lastcopy[c][ch])

\* get_last_info / get_last_slot(idx), lines 239-257
get_last(c, ch) ==
    IF last_read_success[c][ch] # None THEN Some(lastcopy[c][ch]) ELSE None

\* the info channel
Info == {0}

\* one producer and receiver rx1, single receive attempts, on the info channel
SpMcNext ==
    \/ \E ch \in Info, v \in Values : SendIntBegin(ch, v)
    \/ SendIntData
    \/ SendIntEnd
    \/ \E ch \in Info : TryRecv("rx1", ch)
    \/ RecvIntCopy("rx1")
    \/ RecvIntLoadBegin("rx1")

\* the payloads 1, 2, 1, ... in turn
NextPayload(ch) == 1 + (Len(pub[ch]) % 2)

\* send_info with the payloads in turn, at most MaxCloneSends times
CloneSendInfo ==
    \E ch \in Info : TotalSent < MaxCloneSends /\ SendIntBegin(ch, NextPayload(ch))

\* one producer, receiver rx1 and its clone rx2, single receive attempts, on
\* the info channel
SpMcCloneNext ==
    \/ CloneSendInfo
    \/ SendIntData
    \/ SendIntEnd
    \/ \E c \in Receivers \ {"rx1"} : CloneReceiver("rx1", c)
    \/ \E c \in Receivers, ch \in Info : TryRecv(c, ch)
    \/ \E c \in Receivers : RecvIntCopy(c)
    \/ \E c \in Receivers : RecvIntLoadBegin(c)

\* one producer that publishes on the info channel only, and receiver rx1, which
\* calls try_recv_* on every channel and try_recv_*_multi on the slots
SpMcUninitNext ==
    \/ \E ch \in Info, v \in Values : SendIntBegin(ch, v)
    \/ SendIntData
    \/ SendIntEnd
    \/ \E ch \in Channels : TryRecv("rx1", ch)
    \/ \E ch \in Channels \ Info : TryRecvMulti("rx1", ch)
    \/ RecvIntCopy("rx1")
    \/ RecvIntLoadBegin("rx1")

\* send_info with the payloads in turn, at most MaxHangSends times
HangSendInfo ==
    \E ch \in Info : TotalSent < MaxHangSends /\ SendIntBegin(ch, NextPayload(ch))

\* one producer and receiver rx1, which calls try_recv_info_multi
SpMcHangNext ==
    \/ HangSendInfo
    \/ SendIntData
    \/ SendIntEnd
    \/ \E ch \in Info : TryRecvMulti("rx1", ch)
    \/ RecvIntLoadEnd("rx1")
    \/ RecvIntCopy("rx1")
    \/ RecvIntLoadBegin("rx1")

\* the info counter two sends before it rolls over
WrapStart == VALUE_BITS - 2

\* the register after WrapStart send_info calls, the last with payload v, the
\* producer idle; receiver rx1 either newly made or having received that
\* publication (seen).  The histories start here: pub holds that publication.
SpMcNearWrap(v, seen) ==
    LET tag == SeqnumToStore(WrapStart)
    IN  /\ begin = [ch \in Channels |-> IF ch \in Info THEN tag ELSE 0]
        /\ data = [ch \in Channels |-> IF ch \in Info THEN Rec(v) ELSE Rec(0)]
        /\ end = [ch \in Channels |-> IF ch \in Info THEN tag ELSE 0]
        /\ seqnum = [ch \in Channels |-> IF ch \in Info THEN WrapStart ELSE 0]
        /\ snd = [pc |-> "idle", ch |-> 0, new_data |-> v, seqnum_to_store |-> tag,
                  w |-> NWords - 1, res |-> "Ok"]
        /\ alive = [c \in Receivers |-> c = "rx1"]
        /\ last_read_success =
               [c \in Receivers |-> [ch \in Channels |->
                   IF seen /\ c = "rx1" /\ ch \in Info THEN Some(tag) ELSE None]]
        /\ lastcopy =
               [c \in Receivers |-> [ch \in Channels |->
                   IF seen /\ c = "rx1" /\ ch \in Info THEN Rec(v)
                   ELSE [w \in Words |-> UNINIT]]]
        /\ rcv = [c \in Receivers |->
                   IF seen /\ c = "rx1"
                   THEN [pc |-> "idle", ch |-> 0, end |-> tag, w |-> NWords - 1,
                         multi |-> FALSE, iter |-> 0]
                   ELSE RcvIdle]
        /\ rcv_res = [c \in Receivers |-> IF seen /\ c = "rx1" THEN "Ok" ELSE "none"]
        /\ pub = [ch \in Channels |-> IF ch \in Info THEN << v >> ELSE << >>]
        /\ calm = [c \in Receivers |-> seen /\ c = "rx1"]
        /\ quiet = [c \in Receivers |-> [ch \in Channels |->
                       seen /\ c = "rx1" /\ ch \in Info]]
        /\ got = [c \in Receivers |-> [ch \in Channels |->
                       IF seen /\ c = "rx1" /\ ch \in Info THEN 1 ELSE 0]]
        /\ ok_tags = [c \in Receivers |-> [ch \in Channels |->
                       IF seen /\ c = "rx1" /\ ch \in Info THEN << tag >> ELSE << >>]]

\* send_info / send_slot(idx) on any channel with the payloads in turn, at most
\* MaxHangSends times
SendAnyChannel ==
    \E ch \in Channels : TotalSent < MaxHangSends /\ SendIntBegin(ch, NextPayload(ch))

\* the producer has made all its sends
ProducerFinished == TotalSent = MaxHangSends /\ snd.pc = "idle"

\* one producer that publishes on every channel, receiver rx1, which calls
\* try_recv_* on every channel at any time and try_recv_*_multi on every channel
\* once the producer has finished, and the clone rx2 made of rx1
SpMcFrameNext ==
    \/ SendAnyChannel
    \/ SendIntData
    \/ SendIntEnd
    \/ \E c \in Receivers \ {"rx1"} : CloneReceiver("rx1", c)
    \/ \E ch \in Channels : TryRecv("rx1", ch)
    \/ \E ch \in Channels : ProducerFinished /\ TryRecvMulti("rx1", ch)
    \/ RecvIntCopy("rx1")
    \/ RecvIntLoadBegin("rx1")

(* ================== two registers: test_heavy_pingpong ================= *)


\* send_info or send_slot(idx) with the payloads in turn, at most MaxCloneSends
\* times in all
SendOnEvery ==
    \E ch \in Channels : TotalSent < MaxCloneSends /\ SendIntBegin(ch, NextPayload(ch))

\* one producer that publishes on every channel again and again, and receiver
\* rx1, which calls try_recv_info and try_recv_slot(idx) in any order
SpMcChannelsNext ==
    \/ SendOnEvery
    \/ SendIntData
    \/ SendIntEnd
    \/ \E ch \in Channels : TryRecv("rx1", ch)
    \/ RecvIntCopy("rx1")
    \/ RecvIntLoadBegin("rx1")


\* the receiver the receiving thread works with: rx1 until it has cloned it, the
\* clone rx2 from then on
HeldReceiver == IF alive["rx2"] THEN "rx2" ELSE "rx1"

\* one producer that calls send_info with the payloads in turn, and one thread
\* that calls try_recv_info on rx1, clones rx1 at some point and calls
\* try_recv_info on the clone from then on
SpMcCloneWrapNext ==
    \/ \E ch \in Info : SendIntBegin(ch, NextPayload(ch))
    \/ SendIntData
    \/ SendIntEnd
    \/ CloneReceiver("rx1", "rx2")
    \/ \E ch \in Info : TryRecv(HeldReceiver, ch)
    \/ RecvIntCopy(HeldReceiver)
    \/ RecvIntLoadBegin(HeldReceiver)

\* the two threads; the client sends on register 1 (tx1) and receives on
\* register 2 (rx2), the server receives on register 1 (rx1) and sends on
\* register 2 (tx2)
Parties == {"client", "server"}
Registers == {1, 2}
Out(p) == IF p = "client" THEN 1 ELSE 2
In(p) == IF p = "client" THEN 2 ELSE 1
Peer(p) == IF p = "client" THEN "server" ELSE "client"

\* the position a thread starts from, with a fresh sender and receiver
Party(pc) == [pc |-> pc, seqnum |-> 0, val |-> Rec(0), tag |-> 0, w |-> 0,
              end |-> 0, last |-> None, copy |-> [w \in Words |-> UNINIT],
              calm |-> FALSE, n_ok |-> 0]

\* two zeroed regions, SpMcSender::new and SpMcReceiver::new twice, lines 595-607
PingPongInit ==
    /\ pp_reg = [r \in Registers |-> [begin |-> 0, data |-> Rec(0), end |-> 0]]
    /\ pp_pty = [p \in Parties |-> Party(IF p = "client" THEN "start" ELSE "recv")]
    /\ pp_pub = [r \in Registers |-> << >>]
    /\ pp_echo = << >>

\* a thread in the middle of a send_int on its register
Sending(p) == pp_pty[p].pc \in {"send_data", "send_end"}

\* send_int by thread p with record rec, lines 167-171: the counter update and
\* the Release store of begin
PPSendBegin(p, rec) ==
    LET s == NextSeqnum(pp_pty[p].seqnum)
        tag == SeqnumToStore(s)
    IN  /\ pp_reg' = [pp_reg EXCEPT ![Out(p)].begin = tag]
        /\ pp_pty' = [pp_pty EXCEPT ![p].pc = "send_data", ![p].seqnum = s,
                                    ![p].val = rec, ![p].tag = tag, ![p].w = 0,
                                    ![Peer(p)].calm = FALSE]
        /\ pp_pub' = [pp_pub EXCEPT ![Out(p)] = Append(pp_pub[Out(p)], rec)]
        /\ UNCHANGED << pp_echo, outsidePingPong >>

\* the client thread, lines 632-634: a round's tx1.send_info(&send_data)
ClientPing(v) ==
    /\ pp_pty["client"].pc = "start"
    /\ Len(pp_echo) < MaxRounds
    /\ PPSendBegin("client", Rec(v))

\* the client thread, lines 658-659: the closing tx1.send_info with timestamp 0
ClientClose ==
    /\ pp_pty["client"].pc = "start"
    /\ Len(pp_echo) = MaxRounds
    /\ PPSendBegin("client", Rec(0))

\* the server thread, line 619: tx2.send_info(next_val), next_val being the
\* reference into the receiver's buffer
ServerEcho ==
    /\ pp_pty["server"].pc = "reply"
    /\ PPSendBegin("server", pp_pty["server"].copy)

\* send_int, line 180: the copy into data, a word a step
PPSendData(p) ==
    /\ pp_pty[p].pc = "send_data"
    /\ pp_reg' = [pp_reg EXCEPT ![Out(p)].data[pp_pty[p].w] = pp_pty[p].val[pp_pty[p].w]]
    /\ pp_pty' = [pp_pty EXCEPT ![p].pc = IF pp_pty[p].w + 1 = NWords
                                          THEN "send_end" ELSE "send_data",
                                ![p].w = IF pp_pty[p].w + 1 = NWords
                                         THEN 0 ELSE pp_pty[p].w + 1,
                                ![Peer(p)].calm = FALSE]
    /\ UNCHANGED << pp_pub, pp_echo, outsidePingPong >>

\* a thread that sent the closing record stops: the client after line 659, the
\* server at lines 621-623 (last_val.timestamp == 0)
Closing(p) == pp_pty[p].val[0] = 0

\* send_int, lines 181-184: the Release store of end; the thread goes on to poll
PPSendEnd(p) ==
    /\ pp_pty[p].pc = "send_end"
    /\ pp_reg' = [pp_reg EXCEPT ![Out(p)].end = pp_pty[p].tag]
    /\ pp_pty' = [pp_pty EXCEPT ![p].pc = IF Closing(p) THEN "done" ELSE "recv",
                                ![Peer(p)].calm = FALSE]
    /\ UNCHANGED << pp_pub, pp_echo, outsidePingPong >>

\* try_recv_int, line 322: the Acquire load of end
PPRecvLoadEnd(p) ==
    /\ pp_pty[p].pc = "recv"
    /\ pp_pty' = [pp_pty EXCEPT ![p].pc = "recv_data", ![p].end = pp_reg[In(p)].end,
                                ![p].w = 0, ![p].calm = ~Sending(Peer(p))]
    /\ UNCHANGED << pp_reg, pp_pub, pp_echo, outsidePingPong >>

\* try_recv_int, line 323: the copy out of data, a word a step
PPRecvCopy(p) ==
    /\ pp_pty[p].pc = "recv_data"
    /\ pp_pty' = [pp_pty EXCEPT ![p].copy[pp_pty[p].w] = pp_reg[In(p)].data[pp_pty[p].w],
                                ![p].pc = IF pp_pty[p].w + 1 = NWords
                                          THEN "recv_begin" ELSE "recv_data",
                                ![p].w = IF pp_pty[p].w + 1 = NWords
                                         THEN 0 ELSE pp_pty[p].w + 1]
    /\ UNCHANGED << pp_reg, pp_pub, pp_echo, outsidePingPong >>

\* try_recv_int, lines 324-349, and the polling loops around it (lines 611-617
\* and 637-656): on Ok the server goes on to echo and the client to its next
\* round, on any error the thread polls again
PPRecvLoadBegin(p) ==
    /\ pp_pty[p].pc = "recv_begin"
    /\ LET b == pp_reg[In(p)].begin
           outcome == RecvOutcome(b, pp_pty[p].end, pp_pty[p].last)
       IN  /\ pp_pty' = [pp_pty EXCEPT
                  ![p].last = NewLastSeen(outcome, b, pp_pty[p].last),
                  ![p].n_ok = IF outcome = "Ok" THEN pp_pty[p].n_ok + 1 ELSE pp_pty[p].n_ok,
                  ![p].pc = IF outcome # "Ok" THEN "recv"
                            ELSE IF p = "client" THEN "start" ELSE "reply"]
           /\ pp_echo' = IF outcome = "Ok" /\ p = "client"
                         THEN Append(pp_echo, << pp_pty[p].val, pp_pty[p].copy >>)
                         ELSE pp_echo
    /\ UNCHANGED << pp_reg, pp_pub, outsidePingPong >>

PingPongNext ==
    \/ \E v \in Values : ClientPing(v)
    \/ ClientClose
    \/ ServerEcho
    \/ \E p \in Parties : PPSendData(p)
    \/ \E p \in Parties : PPSendEnd(p)
    \/ \E p \in Parties : PPRecvLoadEnd(p)
    \/ \E p \in Parties : PPRecvCopy(p)
    \/ \E p \in Parties : PPRecvLoadBegin(p)

(* ================= the ring, and after it the register ================= *)

\* the ring's two threads, the sends carrying the payloads 1, 2, 1, ... in turn
SpScTurnNext ==
    \/ SendLoad(1 + (Len(sent) % 2))
    \/ SendCopy
    \/ SendStore
    \/ RecvLoadWrite
    \/ RecvLoadRead
    \/ RecvCopy
    \/ RecvStore

\* the ring's threads have passed MaxRingSends records and found the ring empty
RingFinished ==
    /\ Len(rcvd) = MaxRingSends
    /\ tx.pc = "idle" /\ rx.pc = "idle" /\ rx_res = "WouldBlock"

\* no thread of the register has started yet
RegisterUntouched == TotalSent = 0 /\ rcv_res["rx1"] = "none"

\* the ring's threads run first; the register's threads start when those of the
\* ring have finished
PrimitivesNext ==
    \/ RegisterUntouched /\ SpScTurnNext
    \/ RingFinished /\ SpMcNext

(* ============================ LogClient =============================== *)

\* seqid is a u32: x is u32::MAX, 65535 * 65536 + 65535
IsU32Max(x) == x \div 65536 = 65535 /\ x % 65536 = 65535

\* LogClient::new: last_ts is (0, 0); no clock reading taken, no event stamped
LogInit ==
    /\ last_ts = << 0, 0 >>
    /\ log_res = "none"
    /\ clock = 0
    /\ stamped = << >>
    /\ log_call = << >>
    /\ rejected = {}

\* LogEventTs::new
LogEventTs(timestamp, seqid, event) ==
    [timestamp |-> timestamp, seqid |-> seqid, data |-> event]

\* what LogBackend::log may return
BackendResults == {"Ok", "Err"}

\* the readings minstant::Instant::now() may give next: as_unix_nanos of a
\* clock that never runs backwards, so any reading from the last one on
Readings == (IF clock = 0 THEN 1 ELSE clock) .. MaxClock

\* a log_same that stamps the stored seqid again
NextSeqidKept(seqid) == {Some(seqid)}

\* seqid += 1 on a u32: the sum, or at the top of the range the wrapped value
\* (overflow checks off) or no value, a panic (overflow checks on)
NextSeqid(seqid) ==
    IF IsU32Max(seqid) THEN {Some(0), None} ELSE {Some(seqid + 1)}

\* LogClient::log_same: stamps the event with the stored timestamp and the
\* stored seqid plus one
log_same ==
    /\ log_res # "panic"
    /\ Len(stamped) < MaxLogCalls
    /\ \E event \in Values, seqid \in NextSeqid(last_ts[2]), r \in BackendResults :
          /\ log_call' = << "log_same", event >>
          /\ IF seqid = None
             THEN /\ log_res' = "panic"
                  /\ UNCHANGED << last_ts, stamped, rejected >>
             ELSE /\ last_ts' = << last_ts[1], seqid[1] >>
                  /\ stamped' = Append(stamped, LogEventTs(last_ts[1], seqid[1], event))
                  /\ log_res' = r
                  /\ rejected' = IF r = "Err"
                                 THEN rejected \cup {<< last_ts[1], seqid[1] >>}
                                 ELSE rejected
    /\ UNCHANGED << clock, outsideLogger >>

\* LogClient::log: reads the clock and stamps the event with the reading and seqid 0
log ==
    /\ log_res # "panic"
    /\ Len(stamped) < MaxLogCalls
    /\ \E event \in Values, timestamp \in Readings, r \in BackendResults :
          /\ log_call' = << "log", event >>
          /\ clock' = timestamp
          /\ last_ts' = << timestamp, 0 >>
          /\ stamped' = Append(stamped, LogEventTs(timestamp, 0, event))
          /\ log_res' = r
          /\ rejected' = IF r = "Err" THEN rejected \cup {<< timestamp, 0 >>} ELSE rejected
    /\ UNCHANGED outsideLogger

LogNext == log \/ log_same

(* ======================== DualThreadLogBacked ========================= *)

\* len the writer's buffer must reach for a flush before the 5 s are over
FLUSH_LEN == 5000

\* DualThreadLogBacked::new: both flags true, both threads spawned, the channel
\* and the buffer empty, last_send = now
DualThreadInit ==
    /\ running_flag_alpha = TRUE
    /\ running_flag_beta = TRUE
    /\ alpha = "check"
    /\ beta = "check"
    /\ queue = << >>
    /\ logs = << >>
    /\ elapsed = FALSE
    /\ sink = << >>
    /\ dropping = "alive"
    /\ log_rets = << >>

\* the ring fields a step of the backend's own code leaves alone
ringButTxRes == << read_done_seqnum, write_done_seqnum, ring_data, last_send_seqnum,
                   tx, last_read_seqnum, last_copy, rx, rx_res, sent, rcvd, loadAt >>
ringButRxRes == << read_done_seqnum, write_done_seqnum, ring_data, last_send_seqnum,
                   tx, tx_res, last_read_seqnum, last_copy, rx, sent, rcvd, loadAt >>

\* log, line 139: log_tx.send(&event) is entered; the events are numbered by call
LogSend ==
    /\ dropping = "alive"
    /\ tx_res = "none"
    /\ Len(log_rets) < MaxLogCalls
    /\ SendLoad(Len(log_rets) + 1)

\* Result<(), GtsLoggerError>
Ok == << "Ok" >>
Err(e) == << "Err", e >>

\* GtsLoggerError::TransportWouldBlock(GtsTransportError)
TransportWouldBlock(e) == << "TransportWouldBlock", e >>

\* a log that swallows the error of send
LogResultOk(send_res) == Ok

\* From<GtsTransportError> for GtsLoggerError and the ? of line 139
LogResult(send_res) ==
    IF send_res = "Ok" THEN Ok ELSE Err(TransportWouldBlock(send_res))

\* log, lines 139-140: send has returned; ? turns its error into the logger's
LogReturn ==
    /\ tx.pc = "idle"
    /\ tx_res \in {"Ok", "WouldBlock"}
    /\ log_rets' = Append(log_rets, LogResult(tx_res))
    /\ tx_res' = "none"
    /\ UNCHANGED << ringButTxRes, running_flag_alpha, running_flag_beta, alpha, beta,
                    queue, logs, elapsed, sink, dropping, outsideDualThread >>

\* drain thread, line 49: the load of its flag
AlphaCheck ==
    /\ alpha = "check"
    /\ alpha' = IF running_flag_alpha THEN "recv" ELSE "exit"
    /\ UNCHANGED << spscVars, running_flag_alpha, running_flag_beta, beta, queue, logs,
                    elapsed, sink, dropping, log_rets, outsideDualThread >>

\* drain thread, line 53: log_rx.try_recv() is entered
AlphaTryRecv ==
    /\ alpha = "recv"
    /\ rx_res = "none"
    /\ RecvLoadWrite

\* a drain thread that sends each received record into the channel twice
AlphaOkTwice ==
    /\ alpha = "recv"
    /\ rx.pc = "idle"
    /\ rx_res = "Ok"
    /\ queue' = Append(Append(queue, last_copy), last_copy)
    /\ rx_res' = "none"
    /\ UNCHANGED << ringButRxRes, running_flag_alpha, running_flag_beta, alpha, beta,
                    logs, elapsed, sink, dropping, log_rets, outsideDualThread >>

\* drain thread, lines 54-58: try_recv returned Ok, the record goes into the channel
AlphaOk ==
    /\ alpha = "recv"
    /\ rx.pc = "idle"
    /\ rx_res = "Ok"
    /\ queue' = Append(queue, last_copy)
    /\ rx_res' = "none"
    /\ UNCHANGED << ringButRxRes, running_flag_alpha, running_flag_beta, alpha, beta,
                    logs, elapsed, sink, dropping, log_rets, outsideDualThread >>

\* drain thread, lines 59-61: try_recv returned WouldBlock, the inner loop ends
AlphaWouldBlock ==
    /\ alpha = "recv"
    /\ rx.pc = "idle"
    /\ rx_res = "WouldBlock"
    /\ alpha' = "sleep"
    /\ rx_res' = "none"
    /\ UNCHANGED << ringButRxRes, running_flag_alpha, running_flag_beta, beta, queue,
                    logs, elapsed, sink, dropping, log_rets, outsideDualThread >>

\* drain thread, lines 65-68: the sleep of 10 ms is over
AlphaSleep ==
    /\ alpha = "sleep"
    /\ alpha' = "check"
    /\ UNCHANGED << spscVars, running_flag_alpha, running_flag_beta, beta, queue, logs,
                    elapsed, sink, dropping, log_rets, outsideDualThread >>

\* a drain thread that ends without the store of the writer's flag
AlphaExitSilent ==
    /\ alpha = "exit"
    /\ alpha' = "closed"
    /\ UNCHANGED << spscVars, running_flag_alpha, running_flag_beta, beta, queue, logs,
                    elapsed, sink, dropping, log_rets, outsideDualThread >>

\* drain thread, line 70: the store of the writer's flag
AlphaExit ==
    /\ alpha = "exit"
    /\ running_flag_beta' = FALSE
    /\ alpha' = "closed"
    /\ UNCHANGED << spscVars, running_flag_alpha, beta, queue, logs,
                    elapsed, sink, dropping, log_rets, outsideDualThread >>

\* drain thread, lines 71-72: the last println, the thread ends
AlphaClosed ==
    /\ alpha = "closed"
    /\ alpha' = "done"
    /\ UNCHANGED << spscVars, running_flag_alpha, running_flag_beta, beta, queue, logs,
                    elapsed, sink, dropping, log_rets, outsideDualThread >>

\* a writer thread that polls the drain thread's flag
BetaCheckDrainFlag ==
    /\ beta = "check"
    /\ beta' = IF running_flag_alpha THEN "recv" ELSE "closed"
    /\ UNCHANGED << spscVars, running_flag_alpha, running_flag_beta, alpha, queue, logs,
                    elapsed, sink, dropping, log_rets, outsideDualThread >>

\* writer thread, line 78: the load of its flag
BetaCheck ==
    /\ beta = "check"
    /\ beta' = IF running_flag_beta THEN "recv" ELSE "closed"
    /\ UNCHANGED << spscVars, running_flag_alpha, running_flag_beta, alpha, queue, logs,
                    elapsed, sink, dropping, log_rets, outsideDualThread >>

\* writer thread, lines 79-92: one queue_rx.try_recv(); a record goes into the
\* buffer, an error (empty or closed) ends the inner loop
BetaTryRecv ==
    /\ beta = "recv"
    /\ IF queue # << >>
       THEN /\ logs' = Append(logs, Head(queue))
            /\ queue' = Tail(queue)
            /\ UNCHANGED beta
       ELSE /\ beta' = "flush"
            /\ UNCHANGED << queue, logs >>
    /\ UNCHANGED << spscVars, running_flag_alpha, running_flag_beta, alpha,
                    elapsed, sink, dropping, log_rets, outsideDualThread >>

\* the writer's test of lines 93-94
FlushDue == logs # << >> /\ (Len(logs) >= FLUSH_LEN \/ elapsed)

\* writer thread, lines 93-103: when the test holds last_send becomes now; the
\* block takes the length of the buffer and writes nothing, the buffer is kept
BetaFlush ==
    /\ beta = "flush"
    /\ elapsed' = IF FlushDue THEN FALSE ELSE elapsed
    /\ beta' = "sleep"
    /\ UNCHANGED << spscVars, running_flag_alpha, running_flag_beta, alpha, queue, logs,
                    sink, dropping, log_rets, outsideDualThread >>

\* writer thread, line 104: the sleep of 500 ms is over
BetaSleep ==
    /\ beta = "sleep"
    /\ beta' = "check"
    /\ UNCHANGED << spscVars, running_flag_alpha, running_flag_beta, alpha, queue, logs,
                    elapsed, sink, dropping, log_rets, outsideDualThread >>

\* writer thread, lines 106-107: the last println, the thread ends
BetaClosed ==
    /\ beta = "closed"
    /\ beta' = "done"
    /\ UNCHANGED << spscVars, running_flag_alpha, running_flag_beta, alpha, queue, logs,
                    elapsed, sink, dropping, log_rets, outsideDualThread >>

\* more than 5000 ms have passed since last_send
Elapse ==
    /\ ~elapsed
    /\ beta # "done"
    /\ elapsed' = TRUE
    /\ UNCHANGED << spscVars, running_flag_alpha, running_flag_beta, alpha, beta, queue,
                    logs, sink, dropping, log_rets, outsideDualThread >>

\* drop, line 123: the store of the drain thread's flag; the owner's thread is
\* the one that calls log, so no log call is under way
DropStore ==
    /\ dropping = "alive"
    /\ tx.pc = "idle"
    /\ tx_res = "none"
    /\ running_flag_alpha' = FALSE
    /\ dropping' = "join_alpha"
    /\ UNCHANGED << spscVars, running_flag_beta, alpha, beta, queue, logs,
                    elapsed, sink, log_rets, outsideDualThread >>

\* drop, line 124: join of the drain thread returns
DropJoinAlpha ==
    /\ dropping = "join_alpha"
    /\ alpha = "done"
    /\ dropping' = "join_beta"
    /\ UNCHANGED << spscVars, running_flag_alpha, running_flag_beta, alpha, beta, queue,
                    logs, elapsed, sink, log_rets, outsideDualThread >>

\* drop, line 125: join of the writer thread returns
DropJoinBeta ==
    /\ dropping = "join_beta"
    /\ beta = "done"
    /\ dropping' = "dropped"
    /\ UNCHANGED << spscVars, running_flag_alpha, running_flag_beta, alpha, beta, queue,
                    logs, elapsed, sink, log_rets, outsideDualThread >>

\* the owner's thread
OwnerStep == LogSend \/ SendCopy \/ SendStore \/ LogReturn
                \/ DropStore \/ DropJoinAlpha \/ DropJoinBeta

\* the drain thread
AlphaStep == AlphaCheck \/ AlphaTryRecv \/ RecvLoadRead \/ RecvCopy \/ RecvStore
                \/ AlphaOk \/ AlphaWouldBlock \/ AlphaSleep \/ AlphaExit \/ AlphaClosed

\* the writer thread
BetaStep == BetaCheck \/ BetaTryRecv \/ BetaFlush \/ BetaSleep \/ BetaClosed

DualThreadNext == OwnerStep \/ AlphaStep \/ BetaStep \/ Elapse

(* ============================ ShmemHolder ============================= *)

\* the names the callers pass
ShmNames == {"a", "b"}

\* no name exists, no holder is alive
ShmemInit ==
    /\ shm_names = [n \in ShmNames |-> 0]
    /\ holders = {}
    /\ shm_segs = 0
    /\ shm_res = [n |-> 0, op |-> "none", name |-> "none", res |-> Ok]

\* ShmemError::StdIoError of the system call that failed
StdIoError(call) == << "StdIoError", call >>

\* the record of a call in shm_res
Called(op, name, res) == [n |-> shm_res.n + 1, op |-> op, name |-> name, res |-> res]

\* how create may end: with a holder, or at the system call that failed
CreateOutcomes == {"ok", "shm_open", "ftruncate", "mmap"}

\* create, lines 58-115: shm_unlink of the name, shm_open with O_CREAT,
\* ftruncate, mmap, zeroing; the holder has the role Owner
create(name) ==
    /\ shm_res.n < MaxShmOps
    /\ \E outcome \in CreateOutcomes :
          /\ IF outcome = "shm_open"
             THEN /\ shm_names' = [shm_names EXCEPT ![name] = 0]
                  /\ UNCHANGED shm_segs
             ELSE /\ shm_names' = [shm_names EXCEPT ![name] = shm_segs + 1]
                  /\ shm_segs' = shm_segs + 1
          /\ IF outcome = "ok"
             THEN /\ holders' = holders \cup {[id |-> shm_res.n + 1, role |-> "Owner",
                                               name |-> name, seg |-> shm_segs + 1,
                                               prot |-> "PROT_WRITE"]}
                  /\ shm_res' = Called("create", name, Ok)
             ELSE /\ UNCHANGED holders
                  /\ shm_res' = Called("create", name, Err(StdIoError(outcome)))
    /\ UNCHANGED outsideShmem

\* a connect that goes on to mmap whatever shm_open returned
ConnectOutcomesUnchecked(name) == {"ok", "shm_open", "mmap"}

\* how connect_ext may end: shm_open without O_CREAT fails when the name does
\* not exist; with the name there it ends with a holder or at a failed call
ConnectOutcomes(name) ==
    IF shm_names[name] = 0 THEN {"shm_open"} ELSE {"ok", "shm_open", "mmap"}

\* connect_ext, lines 124-164: shm_open of the name, mmap; the holder has the
\* role Client
connect_ext(name, write_permission) ==
    /\ shm_res.n < MaxShmOps
    /\ \E outcome \in ConnectOutcomes(name) :
          IF outcome = "ok"
          THEN /\ holders' = holders \cup {[id |-> shm_res.n + 1, role |-> "Client",
                                            name |-> name, seg |-> shm_names[name],
                                            prot |-> IF write_permission
                                                     THEN "PROT_WRITE"
                                                     ELSE "PROT_READ"]}
               /\ shm_res' = Called("connect", name, Ok)
          ELSE /\ UNCHANGED holders
               /\ shm_res' = Called("connect", name, Err(StdIoError(outcome)))
    /\ UNCHANGED << shm_names, shm_segs, outsideShmem >>

\* connect_rw, lines 116-118
connect_rw(name) == connect_ext(name, TRUE)

\* connect_ro, lines 120-122
connect_ro(name) == connect_ext(name, FALSE)

\* a drop that unlinks the name whatever the role
DropUnlinksAlways(h) ==
    /\ h \in holders
    /\ shm_res.n < MaxShmOps
    /\ holders' = holders \ {h}
    /\ shm_names' = [shm_names EXCEPT ![h.name] = 0]
    /\ shm_res' = Called("drop", h.name, Ok)
    /\ UNCHANGED << shm_segs, outsideShmem >>

\* Drop for ShmemHolder, lines 167-204: munmap, close, and shm_unlink of the
\* name when the role is Owner
ShmemHolderDrop(h) ==
    /\ h \in holders
    /\ shm_res.n < MaxShmOps
    /\ holders' = holders \ {h}
    /\ shm_names' = IF h.role = "Owner"
                    THEN [shm_names EXCEPT ![h.name] = 0]
                    ELSE shm_names
    /\ shm_res' = Called("drop", h.name, Ok)
    /\ UNCHANGED << shm_segs, outsideShmem >>

ShmemNext ==
    \/ \E name \in ShmNames : create(name) \/ connect_rw(name) \/ connect_ro(name)
    \/ \E h \in holders : ShmemHolderDrop(h)

(* ================= MockLogBacked, MockThreadLogBacked ================== *)

\* no client over a mock backend was built yet
MockInit ==
    /\ backend = "none"
    /\ mock_queue = << >>
    /\ queue_rx = << >>
    /\ run_flag = FALSE
    /\ drain = "none"
    /\ mock_drop = "alive"
    /\ popped = << >>

\* LogClient::new(MockLogBacked::new()), mock.rs lines 11-15
MockNew ==
    /\ backend = "none"
    /\ backend' = "MockLogBacked"
    /\ UNCHANGED << mock_queue, queue_rx, run_flag, drain, mock_drop, popped,
                    logVars, spscVars, outsideMock >>

\* LogClient::new(MockThreadLogBacked::new()), threadmock.rs lines 29-58: the
\* flag is false and the thread is spawned
MockThreadNew ==
    /\ backend = "none"
    /\ backend' = "MockThreadLogBacked"
    /\ drain' = "check"
    /\ UNCHANGED << mock_queue, queue_rx, run_flag, mock_drop, popped,
                    logVars, spscVars, outsideMock >>

\* LogClient::log over MockLogBacked: the stamped record is pushed to the back
\* of the queue, the call returns Ok; the events are numbered by call
MockLog ==
    /\ backend = "MockLogBacked"
    /\ Len(stamped) < MaxMockLogs
    /\ \E event \in {Len(stamped) + 1}, timestamp \in Readings :
          /\ log_call' = << "log", event >>
          /\ clock' = timestamp
          /\ last_ts' = << timestamp, 0 >>
          /\ stamped' = Append(stamped, LogEventTs(timestamp, 0, event))
          /\ mock_queue' = Append(mock_queue, LogEventTs(timestamp, 0, event))
          /\ log_res' = "Ok"
    /\ UNCHANGED << backend, queue_rx, run_flag, drain, mock_drop, popped, rejected,
                    spscVars, outsideMock >>

\* a pop_front that takes the record at the back of the queue
MockPopBack ==
    /\ backend = "MockLogBacked"
    /\ Len(popped) < MaxPops
    /\ IF mock_queue = << >>
       THEN /\ popped' = Append(popped, None)
            /\ UNCHANGED mock_queue
       ELSE /\ popped' = Append(popped, Some(mock_queue[Len(mock_queue)]))
            /\ mock_queue' = SubSeq(mock_queue, 1, Len(mock_queue) - 1)
    /\ UNCHANGED << backend, queue_rx, run_flag, drain, mock_drop,
                    logVars, spscVars, outsideMock >>

\* MockLogBacked::pop_front, mock.rs lines 17-19
MockPopFront ==
    /\ backend = "MockLogBacked"
    /\ Len(popped) < MaxPops
    /\ IF mock_queue = << >>
       THEN /\ popped' = Append(popped, None)
            /\ UNCHANGED mock_queue
       ELSE /\ popped' = Append(popped, Some(Head(mock_queue)))
            /\ mock_queue' = Tail(mock_queue)
    /\ UNCHANGED << backend, queue_rx, run_flag, drain, mock_drop,
                    logVars, spscVars, outsideMock >>

\* the owner's thread of the MockThreadLogBacked is between two calls
OwnerIdle ==
    /\ backend = "MockThreadLogBacked"
    /\ mock_drop = "alive"
    /\ log_res \in {"none", "Ok"}
    /\ tx.pc = "idle"
    /\ tx_res = "none"

\* LogClient::log over MockThreadLogBacked, logclient.rs lines 55-59: the
\* event is stamped and handed to the backend; the events are numbered by call
ThreadMockLog ==
    /\ OwnerIdle
    /\ Len(stamped) < MaxMockLogs
    /\ \E event \in {Len(stamped) + 1}, timestamp \in Readings :
          /\ log_call' = << "log", event >>
          /\ clock' = timestamp
          /\ last_ts' = << timestamp, 0 >>
          /\ stamped' = Append(stamped, LogEventTs(timestamp, 0, event))
          /\ log_res' = "running"
    /\ UNCHANGED << mockVars, rejected, spscVars, outsideMock >>

\* MockThreadLogBacked::log, threadmock.rs line 84: log_tx.send(&event) is
\* entered; the ring carries the number of the stamped record
ThreadMockSend ==
    /\ backend = "MockThreadLogBacked"
    /\ log_res = "running"
    /\ tx.pc = "idle"
    /\ tx_res = "none"
    /\ SendLoad(Len(stamped))

\* MockThreadLogBacked::log, threadmock.rs lines 84-85: send has returned;
\* unwrap panics on WouldBlock
ThreadMockReturn ==
    /\ backend = "MockThreadLogBacked"
    /\ log_res = "running"
    /\ tx.pc = "idle"
    /\ tx_res \in {"Ok", "WouldBlock"}
    /\ log_res' = IF tx_res = "Ok" THEN "Ok" ELSE "panic"
    /\ tx_res' = "none"
    /\ UNCHANGED << ringButTxRes, last_ts, clock, stamped, log_call, rejected, mockVars,
                    outsideMock >>

\* MockThreadLogBacked::pop_front, threadmock.rs lines 60-62: queue_rx.try_recv().ok()
ThreadMockPopFront ==
    /\ OwnerIdle
    /\ Len(popped) < MaxPops
    /\ IF queue_rx = << >>
       THEN /\ popped' = Append(popped, None)
            /\ UNCHANGED queue_rx
       ELSE /\ popped' = Append(popped, Some(Head(queue_rx)))
            /\ queue_rx' = Tail(queue_rx)
    /\ UNCHANGED << backend, mock_queue, run_flag, drain, mock_drop,
                    logVars, spscVars, outsideMock >>

\* thread of MockThreadLogBacked, line 40: the flag is read under its lock
DrainCheck ==
    /\ drain = "check"
    /\ drain' = IF run_flag THEN "done" ELSE "recv"
    /\ UNCHANGED << backend, mock_queue, queue_rx, run_flag, mock_drop, popped,
                    logVars, spscVars, outsideMock >>

\* thread of MockThreadLogBacked, line 41: log_rx.try_recv() is entered
DrainTryRecv ==
    /\ drain = "recv"
    /\ rx_res = "none"
    /\ RecvLoadWrite

\* thread of MockThreadLogBacked, lines 42-44: try_recv returned Ok, the record
\* goes into the channel
DrainOk ==
    /\ drain = "recv"
    /\ rx.pc = "idle"
    /\ rx_res = "Ok"
    /\ queue_rx' = Append(queue_rx, last_copy)
    /\ rx_res' = "none"
    /\ drain' = "sleep"
    /\ UNCHANGED << ringButRxRes, backend, mock_queue, run_flag, mock_drop, popped,
                    logVars, outsideMock >>

\* thread of MockThreadLogBacked, line 45: try_recv returned WouldBlock
DrainWouldBlock ==
    /\ drain = "recv"
    /\ rx.pc = "idle"
    /\ rx_res = "WouldBlock"
    /\ rx_res' = "none"
    /\ drain' = "sleep"
    /\ UNCHANGED << ringButRxRes, backend, mock_queue, queue_rx, run_flag, mock_drop,
                    popped, logVars, outsideMock >>

\* thread of MockThreadLogBacked, line 48: the sleep of 100 ms is over
DrainSleep ==
    /\ drain = "sleep"
    /\ drain' = "check"
    /\ UNCHANGED << backend, mock_queue, queue_rx, run_flag, mock_drop, popped,
                    logVars, spscVars, outsideMock >>

\* Drop for MockThreadLogBacked, line 69: the flag is set under its lock; the
\* owner's thread is between two calls or unwinds from the panic of log
ThreadMockDropStore ==
    /\ backend = "MockThreadLogBacked"
    /\ mock_drop = "alive"
    /\ log_res # "running"
    /\ tx.pc = "idle"
    /\ tx_res = "none"
    /\ run_flag' = TRUE
    /\ mock_drop' = "join"
    /\ UNCHANGED << backend, mock_queue, queue_rx, drain, popped,
                    logVars, spscVars, outsideMock >>

\* Drop for MockThreadLogBacked, line 70: join of the thread returns
ThreadMockDropJoin ==
    /\ mock_drop = "join"
    /\ drain = "done"
    /\ mock_drop' = "dropped"
    /\ UNCHANGED << backend, mock_queue, queue_rx, run_flag, drain, popped,
                    logVars, spscVars, outsideMock >>

\* the thread of MockThreadLogBacked
DrainStep == DrainCheck \/ DrainTryRecv \/ RecvLoadRead \/ RecvCopy \/ RecvStore
                \/ DrainOk \/ DrainWouldBlock \/ DrainSleep

MockNext ==
    \/ MockNew \/ MockLog \/ MockPopFront
    \/ MockThreadNew \/ ThreadMockLog \/ ThreadMockSend \/ SendCopy \/ SendStore
    \/ ThreadMockReturn \/ ThreadMockPopFront
    \/ ThreadMockDropStore \/ ThreadMockDropJoin
    \/ DrainStep

(* =========================== specifications =========================== *)

Init ==
    /\ SpScInit /\ SpMcInit /\ PingPongInit /\ LogInit /\ DualThreadInit /\ ShmemInit
    /\ MockInit

\* the state WrapStart sends after construction
InitNearWrap ==
    /\ SpScInit
    /\ PingPongInit
    /\ LogInit
    /\ DualThreadInit
    /\ ShmemInit
    /\ MockInit
    /\ \E v \in Values, seen \in BOOLEAN : SpMcNearWrap(v, seen)

\* one producer thread and one consumer thread over one ring
SpecRing == Init /\ [][SpScNext]_vars


\* a step of the producer thread, and a step of the consumer thread
SenderStep == (\E v \in Values : SendLoad(v)) \/ SendCopy \/ SendStore
ReceiverStep == RecvLoadWrite \/ RecvLoadRead \/ RecvCopy \/ RecvStore

\* the same ring, with a consumer thread that calls try_recv again and again
\* and a producer thread that calls send again and again
SpecRingFair == SpecRing /\ WF_vars(ReceiverStep) /\ WF_vars(SenderStep)

\* the register with its producer thread and one receiver thread
SpecRegister == Init /\ [][SpMcNext]_vars

\* the register with its producer thread and one thread per receiver
SpecClone == Init /\ [][SpMcCloneNext]_vars

\* the register with its producer thread publishing on the info channel and one
\* receiver thread polling the info channel and the never-written slots
SpecUninit == Init /\ [][SpMcUninitNext]_vars

\* the register with its producer thread and one receiver thread that runs the
\* bounded retry loop
SpecHang == Init /\ [][SpMcHangNext]_vars

\* the register with its producer thread and one receiver thread, while the
\* info counter rolls over from VALUE_BITS - 1 to 0
SpecWrap == InitNearWrap /\ [][SpMcNext]_vars

\* both primitives: a ring with its two threads, and after it a register with
\* its producer thread and one receiver thread
SpecPrimitives == Init /\ [][PrimitivesNext]_vars

\* the register with its producer thread publishing on every channel and one
\* receiver thread that polls every channel and clones itself
SpecFrame == Init /\ [][SpMcFrameNext]_vars


\* the register with its producer thread publishing on every channel in turn
\* and one receiver thread that polls every channel
SpecChannels == Init /\ [][SpMcChannelsNext]_vars


\* the register with its producer thread and one receiver thread that goes on
\* with a clone of its receiver, from construction and from the state two sends
\* before the info counter rolls over
SpecCloneWrap == (Init \/ InitNearWrap) /\ [][SpMcCloneWrapNext]_vars

\* the client thread and the server thread of the ping-pong over two registers
SpecPingPong == Init /\ [][PingPongNext]_vars

\* one log client called from its one thread
SpecLog == Init /\ [][LogNext]_vars

\* the dual-thread backend: its owner's thread, its drain thread and its writer thread
SpecDualThread == Init /\ [][DualThreadNext]_vars

\* the same, with the drain thread, the writer thread and the owner's thread
\* inside drop each scheduled again and again
SpecDualThreadFair ==
    /\ SpecDualThread
    /\ WF_vars(AlphaStep)
    /\ WF_vars(BetaStep)
    /\ WF_vars(DropJoinAlpha \/ DropJoinBeta)

\* callers that create, connect to and drop named segments
SpecShmem == Init /\ [][ShmemNext]_vars

\* a LogClient over one of the mock backends, called from its owner's thread,
\* with the thread of MockThreadLogBacked scheduled again and again
SpecMock == Init /\ [][MockNext]_vars /\ WF_vars(DrainStep)

Spec == SpecRing

(* ============================== claims ================================= *)

\* slots that hold an accepted record the consumer has not finished receiving:
\* read_done+1 .. write_done, modulo the ring size
UnreadSlots ==
    { (read_done_seqnum + i) % RSIZE :
        i \in 1 .. ((write_done_seqnum - read_done_seqnum) % RSIZE) }

C2_Capacity ==
    /\ (tx_res # "none" /\ loadAt = << RSIZE - 1, 0 >>) => tx_res = "WouldBlock"
    /\ (tx_res # "none" /\ loadAt = << RSIZE - 1, 1 >>) => tx_res \in {"running", "Ok"}
    /\ (tx_res # "none" /\ loadAt = << RSIZE, 1 >>) => tx_res = "WouldBlock"
    /\ tx_res # "none" => (tx_res = "WouldBlock" <=> loadAt[1] - loadAt[2] = RSIZE - 1)

\* the send after the one extra accepted send was refused
C2_Witness ==
    /\ tx_res = "WouldBlock"
    /\ loadAt = << RSIZE, 1 >>

\* C3: SPSC no overwrite.  While the producer is copying into data[next_seqnum],
\* that slot holds no unreceived record, and it is not the slot the consumer is
\* copying out of; a send that found no free slot returned WouldBlock without
\* starting a copy.
C3_NoOverwrite ==
    /\ tx.pc = "copy" => tx.next_seqnum \notin UnreadSlots
    /\ (tx.pc = "copy" /\ rx.pc \in {"copy", "store"}) => tx.next_seqnum # rx.next_read
    /\ tx_res = "WouldBlock" => tx.pc = "idle"

\* producer and consumer are both in the middle of their copies while every
\* other slot holds an unreceived record
C3_Witness ==
    /\ tx.pc = "copy" /\ tx.w = 1
    /\ rx.pc = "copy" /\ rx.w = 1
    /\ Cardinality(UnreadSlots) = RSIZE - 2

(* ------------------------- register: vocabulary ------------------------ *)

\* the receiver exists, is between calls, and its last call returned something
Returned(c) == alive[c] /\ rcv[c].pc = "idle" /\ rcv_res[c] \notin {"none", "running"}

\* the step that completes one receive attempt of c (the load of begin)
Completes(c) == rcv[c].pc = "begin" /\ rcv'[c].pc # "begin"

\* a send on ch has stored begin and not yet end
SendingOn(ch) == snd.pc # "idle" /\ snd.ch = ch

\* the tag the k-th publication on a channel carries
TagOfPub(k) == GOOD_BIT + (k % VALUE_BITS)

\* tag t2 is later than tag t1, modulo 2^24
Later(t1, t2) == ((t2 - t1) % VALUE_BITS) \in 1 .. ((VALUE_BITS \div 2) - 1)

\* C4: SPMC read integrity.  Whatever a successful try_recv_* returned is, in
\* every word, one payload that was passed to send_* on that channel before;
\* it is never a mix of words of two writes.
C4_ReadIntegrity ==
    \A c \in Receivers :
        (Returned(c) /\ rcv_res[c] = "Ok") =>
            \E i \in 1 .. Len(pub[rcv[c].ch]) :
                lastcopy[c][rcv[c].ch] = Rec(pub[rcv[c].ch][i])

\* a receive returned a whole record, and the producer is now part-way through
\* overwriting it with a different payload (the region holds a mixed record)
C4_Witness ==
    \E c \in Receivers :
        /\ Returned(c) /\ rcv_res[c] = "Ok"
        /\ SendingOn(rcv[c].ch)
        /\ \E w1, w2 \in Words : data[rcv[c].ch][w1] # data[rcv[c].ch][w2]

\* C5: SPMC framing invariant.  On every channel, begin == end with the GOOD bit
\* set means that no send is part-way through and data holds, in every word,
\* the payload that was published with that tag.
C5_Framing ==
    \A ch \in Channels :
        (begin[ch] = end[ch] /\ BitAnd(begin[ch], GOOD_BIT) # 0) =>
            /\ ~SendingOn(ch)
            /\ \E i \in 1 .. Len(pub[ch]) :
                   /\ TagOfPub(i) = begin[ch]
                   /\ data[ch] = Rec(pub[ch][i])

\* a channel is framed by equal tags after its payload changed from one
\* publication to the next
C5_Witness ==
    \E ch \in Channels :
        /\ begin[ch] = end[ch] /\ BitAnd(begin[ch], GOOD_BIT) # 0
        /\ Len(pub[ch]) >= 2
        /\ pub[ch][Len(pub[ch])] # pub[ch][Len(pub[ch]) - 1]

\* C6: SPMC staleness detection.  An attempt of a receiver that has a last_seen
\* for the channel, with no step of a send on that channel since the receiver's
\* previous attempt on it completed, returns WouldBlock.
C6_Staleness ==
    [][\A c \in Receivers :
          (/\ Completes(c)
           /\ quiet[c][rcv[c].ch]
           /\ last_read_success[c][rcv[c].ch] # None)
          => rcv_res'[c] = "WouldBlock"]_vars

\* WouldBlock was returned, and no send has started since the receiver's last
\* successful attempt on the channel
C6_Witness ==
    \E c \in Receivers :
        /\ Returned(c) /\ rcv_res[c] = "WouldBlock"
        /\ Len(pub[rcv[c].ch]) >= 1
        /\ got[c][rcv[c].ch] = Len(pub[rcv[c].ch])
        /\ ~SendingOn(rcv[c].ch)

\* C7: SPMC freshness.  The tags of two consecutive successful attempts of a
\* receiver on a channel (whatever failed in between) differ, and the second
\* is the later one modulo 2^24.
C7_Freshness ==
    \A c \in Receivers, ch \in Channels :
        Len(ok_tags[c][ch]) = 2 =>
            /\ ok_tags[c][ch][1] # ok_tags[c][ch][2]
            /\ Later(ok_tags[c][ch][1], ok_tags[c][ch][2])

\* a call has just returned Ok for the second time, and the receiver never got
\* the publication between its two successful attempts
C7_Witness ==
    \E c \in Receivers, ch \in Channels :
        /\ Len(ok_tags[c][ch]) = 2
        /\ ok_tags[c][ch][2] = ok_tags[c][ch][1] + 2
        /\ Returned(c) /\ rcv_res[c] = "Ok" /\ rcv[c].ch = ch

\* C8: never-written channel.  While no send was ever started on a channel,
\* every completed try_recv_* and try_recv_*_multi call on it has returned
\* Unitialized, and get_last_* on it returns none.
C8_Uninitialized ==
    \A c \in Receivers :
        /\ (Returned(c) /\ Len(pub[rcv[c].ch]) = 0) => rcv_res[c] = "Unitialized"
        /\ \A ch \in Channels : Len(pub[ch]) = 0 => get_last(c, ch) = None

\* a try_recv_slot_multi call returned Unitialized on a never-written slot, by
\* a receiver that holds a last_seen for another channel of the same region
C8_Witness ==
    \E c \in Receivers :
        /\ Returned(c) /\ rcv[c].multi /\ rcv_res[c] = "Unitialized"
        /\ Len(pub[rcv[c].ch]) = 0
        /\ \E ch \in Channels : last_read_success[c][ch] # None

\* C9: freshness is decided by the tag.  With the producer idle, the latest
\* payload equal to the one before it, and the receiver's last successful
\* attempt made when the one before was the latest: the attempt returns Ok with
\* the latest record.  If the receiver's last successful attempt was made when
\* the latest was already published, the attempt returns WouldBlock.
C9_TagDecides ==
    [][\A c \in Receivers :
          LET ch == rcv[c].ch
              k == Len(pub[ch])
          IN  (/\ Completes(c)
               /\ calm[c] /\ ~SendingOn(ch)
               /\ k >= 2
               /\ pub[ch][k] = pub[ch][k - 1]
               /\ last_read_success[c][ch] # None)
              => /\ got[c][ch] = k - 1 =>
                        /\ rcv_res'[c] = "Ok"
                        /\ lastcopy'[c][ch] = Rec(pub[ch][k])
                 /\ got[c][ch] = k => rcv_res'[c] = "WouldBlock"]_vars

\* the receiver got the publication before the latest and then the latest, the
\* two carrying the same payload, and its call after that returned WouldBlock
C9_Witness ==
    \E c \in Receivers :
        LET ch == rcv[c].ch
            k == Len(pub[ch])
        IN  /\ Returned(c) /\ rcv_res[c] = "WouldBlock"
            /\ k >= 2
            /\ pub[ch][k] = pub[ch][k - 1]
            /\ ok_tags[c][ch] = << TagOfPub(k - 1), TagOfPub(k) >>
            /\ got[c][ch] = k

\* the state of one receiver
ReceiverState(d) == << alive[d], last_read_success[d], lastcopy[d], rcv[d], rcv_res[d] >>

\* C10: SPMC multi-consumer independence.  A step of one receiver changes
\* neither the region nor any other receiver's state; an attempt made while the
\* producer is idle, by a receiver whose last successful attempt predates the
\* latest publication, returns Ok with the latest record whatever the other
\* receivers have received; a clone starts with last_seen none on every channel.
C10_Independence ==
    [][\A c \in Receivers :
          LET ch == rcv[c].ch
              k == Len(pub[ch])
          IN  /\ ReceiverState(c)' # ReceiverState(c) =>
                    /\ UNCHANGED << begin, data, end >>
                    /\ \A d \in Receivers \ {c} : ReceiverState(d)' = ReceiverState(d)
              /\ (/\ Completes(c)
                  /\ calm[c] /\ ~SendingOn(ch)
                  /\ k >= 1
                  /\ got[c][ch] < k)
                 => /\ rcv_res'[c] = "Ok"
                    /\ lastcopy'[c][ch] = Rec(pub[ch][k])
              /\ (~alive[c] /\ alive'[c]) =>
                    \A x \in Channels : last_read_success'[c][x] = None]_vars

\* rx1 received both publications, its clone rx2 only the second; the last call
\* of each returned Ok with the second publication
C10_Witness ==
    \E ch \in Channels :
        /\ Len(pub[ch]) = 2
        /\ Len(ok_tags["rx1"][ch]) = 2
        /\ Len(ok_tags["rx2"][ch]) = 1
        /\ \A c \in Receivers :
               /\ Returned(c) /\ rcv_res[c] = "Ok" /\ rcv[c].ch = ch
               /\ got[c][ch] = 2
               /\ lastcopy[c][ch] = Rec(pub[ch][2])

\* C11: SPMC torn read.  An attempt that loads begin != end returns Inconsistent
\* and leaves last_seen of the channel none, so that get_last_* returns none,
\* also when the receiver had received a value before; and last_seen of a
\* channel goes from none to set only by an attempt that returns Ok.
C11_TornRead ==
    [][\A c \in Receivers :
          LET ch == rcv[c].ch
          IN  /\ (Completes(c) /\ begin[ch] # rcv[c].end) =>
                    /\ rcv_res'[c] = "Inconsistent"
                    /\ last_read_success'[c][ch] = None
                    /\ get_last(c, ch)' = None
              /\ \A x \in Channels :
                    (last_read_success[c][x] = None /\ last_read_success'[c][x] # None) =>
                        /\ Completes(c) /\ x = ch
                        /\ rcv_res'[c] = "Ok"]_vars

\* a call returned Inconsistent to a receiver that had received a publication
\* before, and get_last on the channel is none
C11_Witness ==
    \E c \in Receivers :
        /\ Returned(c) /\ rcv_res[c] = "Inconsistent"
        /\ got[c][rcv[c].ch] >= 1
        /\ get_last(c, rcv[c].ch) = None

\* steps receiver c's running call has taken: NWords + 2 for each attempt
\* (the load of end, NWords word copies, the load of begin)
CallSteps(c) ==
    rcv[c].iter * (NWords + 2) +
        (IF rcv[c].pc = "end" THEN 0
         ELSE IF rcv[c].pc = "data" THEN 1 + rcv[c].w
         ELSE NWords + 1)

\* C12: the retry loops terminate.  A try_recv_*_multi call goes round again
\* only after an Inconsistent attempt, returns the outcome of the first attempt
\* that is Ok, Unitialized or WouldBlock, and returns InconsistentHang exactly
\* when its MAX_ITER_TILL_HANG-th attempt in a row was Inconsistent; every step
\* of the call is its return or adds one to a step count that stays below
\* MAX_ITER_TILL_HANG * (NWords + 2), whatever the producer does or fails to do.
C12_MultiTerminates ==
    /\ [][\A c \in Receivers :
            LET ch == rcv[c].ch
                torn == begin[ch] # rcv[c].end
            IN  /\ (rcv[c].pc = "begin" /\ rcv'[c] # rcv[c] /\ rcv[c].multi) =>
                    /\ rcv'[c].pc \in {"end", "idle"}
                    /\ rcv'[c].pc = "end" <=>
                           (torn /\ rcv[c].iter + 1 < MAX_ITER_TILL_HANG)
                    /\ rcv'[c].pc = "end" =>
                           (rcv'[c].iter = rcv[c].iter + 1 /\ rcv_res'[c] = "running")
                    /\ (rcv'[c].pc = "idle" /\ ~torn) =>
                           /\ rcv_res'[c] \in {"Ok", "Unitialized", "WouldBlock"}
                           /\ rcv_res'[c] =
                                  RecvOutcome(begin[ch], rcv[c].end, last_read_success[c][ch])
                    /\ (rcv'[c].pc = "idle" /\ torn) =>
                           /\ rcv_res'[c] = "InconsistentHang"
                           /\ rcv[c].iter + 1 = MAX_ITER_TILL_HANG
                /\ (rcv[c].pc # "idle" /\ rcv'[c] # rcv[c]) =>
                    \/ rcv'[c].pc = "idle"
                    \/ CallSteps(c)' = CallSteps(c) + 1]_vars
    /\ [](\A c \in Receivers :
            rcv[c].pc # "idle" => CallSteps(c) < MAX_ITER_TILL_HANG * (NWords + 2))

\* a try_recv_info_multi call returned InconsistentHang while the producer is
\* stalled between its store of begin and its store of end
C12_Witness ==
    \E c \in Receivers :
        /\ Returned(c) /\ rcv[c].multi /\ rcv_res[c] = "InconsistentHang"
        /\ rcv[c].iter + 1 = MAX_ITER_TILL_HANG
        /\ SendingOn(rcv[c].ch)

\* C13: get_last_*.  Between calls, get_last_info / get_last_slot return a value
\* exactly when the receiver's last_seen of the channel is set, and the value is
\* then the record the receiver's most recent Ok attempt on the channel
\* returned, also after WouldBlock attempts that followed it; an Ok attempt
\* returns the record of the publication that was the latest when it completed.
C13_GetLast ==
    /\ [](\A c \in Receivers, ch \in Channels :
            rcv[c].pc = "idle" =>
                /\ get_last(c, ch) # None <=> last_read_success[c][ch] # None
                /\ last_read_success[c][ch] # None =>
                       /\ got[c][ch] \in 1 .. Len(pub[ch])
                       /\ get_last(c, ch) = Some(Rec(pub[ch][got[c][ch]])))
    /\ [][\A c \in Receivers :
            (Completes(c) /\ rcv_res'[c] = "Ok") =>
                /\ got'[c][rcv[c].ch] = Len(pub[rcv[c].ch])
                /\ lastcopy[c][rcv[c].ch] = Rec(pub[rcv[c].ch][Len(pub[rcv[c].ch])])
                /\ lastcopy'[c][rcv[c].ch] = lastcopy[c][rcv[c].ch]]_vars

\* after an Ok and then a WouldBlock attempt, with the producer since at work on
\* a different payload, get_last still gives the record the Ok attempt returned
C13_Witness ==
    \E c \in Receivers :
        LET ch == rcv[c].ch
        IN  /\ Returned(c) /\ rcv_res[c] = "WouldBlock"
            /\ got[c][ch] >= 1 /\ got[c][ch] < Len(pub[ch])
            /\ pub[ch][got[c][ch]] # pub[ch][Len(pub[ch])]
            /\ get_last(c, ch) = Some(Rec(pub[ch][got[c][ch]]))

\* C14: two-register ping-pong.  In every round the first record the client
\* receives on register 2 is, word for word, the record it sent on register 1
\* in that round, under every interleaving of the two threads; and a receive
\* attempt that begins when the other thread is not in the middle of a send,
\* with a publication of it not yet received, returns Ok, so that a thread
\* retries at most once after the other has finished its send.
C14_PingPong ==
    /\ [](/\ \A i \in 1 .. Len(pp_echo) : pp_echo[i][2] = pp_echo[i][1]
          /\ \A p \in Parties : pp_pty[p].n_ok <= Len(pp_pub[In(p)])
          /\ Len(pp_pub[2]) <= Len(pp_pub[1]))
    /\ [][\A p \in Parties :
            (/\ pp_pty[p].pc = "recv_begin" /\ pp_pty'[p].pc # "recv_begin"
             /\ pp_pty[p].calm
             /\ pp_pty[p].n_ok < Len(pp_pub[In(p)]))
            => /\ pp_pty'[p].pc \in {"start", "reply"}
               /\ pp_pty'[p].n_ok = pp_pty[p].n_ok + 1]_vars

\* both threads have finished after the client played two rounds or more with
\* different records and received each of them back
C14_Witness ==
    /\ \A p \in Parties : pp_pty[p].pc = "done"
    /\ Len(pp_echo) >= 2
    /\ pp_echo[1][1] # pp_echo[2][1]
    /\ pp_echo[2][2] = pp_echo[2][1]

\* C15: the producer cannot fail and does not depend on readers.  Every
\* send_info / send_slot call that has returned returned Ok; each step of a
\* send is enabled whatever the receivers are doing; and a step of a receiver
\* operation (try_recv_*, try_recv_*_multi, clone; get_last_* only reads) leaves
\* begin, data and end of every channel, and the producer's counters, unchanged.
C15_ProducerIndependent ==
    /\ [](/\ snd.pc = "idle" => snd.res = (IF TotalSent = 0 THEN "none" ELSE "Ok")
          /\ snd.pc # "idle" => snd.res = "running"
          /\ (snd.pc = "idle" /\ TotalSent < MaxSends) =>
                 \A ch \in Channels : ENABLED SendIntBegin(ch, NextPayload(ch))
          /\ snd.pc = "data" => ENABLED SendIntData
          /\ snd.pc = "end" => ENABLED SendIntEnd)
    /\ [][(snd' = snd \/ rcv' # rcv \/ alive' # alive \/ lastcopy' # lastcopy
             \/ last_read_success' # last_read_success)
           => UNCHANGED << begin, data, end, seqnum, snd >>]_vars

\* a send_slot call returned Ok although receiver rx1 was inside a call on the
\* same slot, which returned Inconsistent, and rx1 has been cloned
C15_Witness ==
    /\ snd.pc = "idle" /\ snd.res = "Ok" /\ snd.ch \in Channels \ Info
    /\ Returned("rx1") /\ rcv_res["rx1"] = "Inconsistent" /\ rcv["rx1"].ch = snd.ch
    /\ alive["rx2"]

\* a tag the producer stores lies in [2^24, 2^25)
IsTag(t) == t >= GOOD_BIT /\ t < 2 * GOOD_BIT

\* C16: SPMC tag wrap.  Each send advances the channel's counter by one modulo
\* 2^24 and stores the counter with the GOOD bit set, so begin and end of a
\* written channel are always in [2^24, 2^25), also once the counter rolled
\* over to 0; a receive attempt on a written channel never returns Unitialized,
\* and the publication whose counter is 0 is received as a new value.
C16_TagWrap ==
    /\ [](\A ch \in Channels :
            /\ seqnum[ch] \in 0 .. (VALUE_BITS - 1)
            /\ Len(pub[ch]) > 0 =>
                   /\ IsTag(begin[ch]) /\ IsTag(end[ch])
                   /\ begin[ch] = GOOD_BIT + seqnum[ch]
                   /\ BitAnd(begin[ch], GOOD_BIT) # 0)
    /\ [][\A ch \in Channels :
            seqnum'[ch] # seqnum[ch] =>
                /\ seqnum'[ch] = (seqnum[ch] + 1) % VALUE_BITS
                /\ begin'[ch] = GOOD_BIT + seqnum'[ch]
                /\ snd'.seqnum_to_store = begin'[ch]]_vars
    /\ [][\A c \in Receivers :
            LET ch == rcv[c].ch
                k == Len(pub[ch])
            IN  (Completes(c) /\ k > 0) =>
                    /\ rcv_res'[c] # "Unitialized"
                    /\ (/\ calm[c] /\ ~SendingOn(ch)
                        /\ seqnum[ch] = 0
                        /\ got[c][ch] < k)
                       => /\ rcv_res'[c] = "Ok"
                          /\ last_read_success'[c][ch] = Some(GOOD_BIT)
                          /\ lastcopy'[c][ch] = Rec(pub[ch][k])]_vars

\* the counter has rolled over to 0, and the receiver has received the
\* publication before the roll-over and then the one whose counter is 0
C16_Witness ==
    \E ch \in Channels :
        /\ seqnum[ch] = 0 /\ begin[ch] = GOOD_BIT /\ end[ch] = GOOD_BIT
        /\ Returned("rx1") /\ rcv_res["rx1"] = "Ok" /\ rcv["rx1"].ch = ch
        /\ ok_tags["rx1"][ch] = << 2 * GOOD_BIT - 1, GOOD_BIT >>

C18_WriteOwnership ==
    [][/\ (tx' # tx \/ tx_res' # tx_res) =>
            /\ UNCHANGED << read_done_seqnum, last_copy, last_read_seqnum, rx, rx_res >>
            /\ ring_data' # ring_data => tx.pc = "copy"
            /\ \A i \in 0 .. (RSIZE - 1) :
                   i # tx.next_seqnum => ring_data'[i] = ring_data[i]
            /\ write_done_seqnum' # write_done_seqnum =>
                   (tx.pc = "store" /\ write_done_seqnum' = tx.next_seqnum)
            /\ last_send_seqnum' # last_send_seqnum =>
                   (tx.pc = "idle" /\ last_send_seqnum' = tx'.next_seqnum)
       /\ (rx' # rx \/ rx_res' # rx_res) =>
            /\ UNCHANGED << write_done_seqnum, ring_data, last_send_seqnum, tx, tx_res >>
            /\ read_done_seqnum' # read_done_seqnum => rx.pc = "store"
            /\ last_copy' # last_copy => rx.pc = "copy"
       /\ (write_done_seqnum' # write_done_seqnum \/ ring_data' # ring_data
              \/ last_send_seqnum' # last_send_seqnum) => tx' # tx
       /\ (read_done_seqnum' # read_done_seqnum \/ last_copy' # last_copy) => rx' # rx]_vars

\* the producer is about to store write_done and the consumer about to store
\* read_done, each after its copy, on a ring whose slots have all been used
C18_Witness ==
    /\ tx.pc = "store" /\ rx.pc = "store"
    /\ Len(sent) >= RSIZE
    /\ tx.next_seqnum # rx.next_read

\* steps the running send of the ring has taken (load, NWords copies, store)
TxSteps == IF tx.pc = "idle" THEN 0 ELSE IF tx.pc = "copy" THEN 1 + tx.w ELSE NWords + 1

\* steps the running try_recv of the ring has taken (two loads, NWords copies, store)
RxSteps ==
    IF rx.pc = "idle" THEN 0
    ELSE IF rx.pc = "loadread" THEN 1
    ELSE IF rx.pc = "copy" THEN 2 + rx.w
    ELSE NWords + 2

\* steps the running send_int has taken (store, NWords copies, store)
SndSteps == IF snd.pc = "idle" THEN 0 ELSE IF snd.pc = "data" THEN 1 + snd.w ELSE NWords + 1

\* C19: non-blocking primitives.  In every reachable state the next step of
\* every running send / try_recv of the ring and send_* / try_recv_* of the
\* register is enabled, whatever position the other endpoint is in or stalled
\* at; and every step of a call is its return or adds one to the call's step
\* count, which stays below NWords + 2 for send, send_* and try_recv_* and
\* below NWords + 3 for the ring's try_recv.
C19_NonBlocking ==
    /\ [](/\ tx.pc = "copy" => ENABLED SendCopy
          /\ tx.pc = "store" => ENABLED SendStore
          /\ rx.pc = "loadread" => ENABLED RecvLoadRead
          /\ rx.pc = "copy" => ENABLED RecvCopy
          /\ rx.pc = "store" => ENABLED RecvStore
          /\ snd.pc = "data" => ENABLED SendIntData
          /\ snd.pc = "end" => ENABLED SendIntEnd
          /\ \A c \in Receivers :
                /\ rcv[c].pc = "data" => ENABLED RecvIntCopy(c)
                /\ rcv[c].pc = "begin" => ENABLED RecvIntLoadBegin(c)
                /\ (rcv[c].pc # "idle" /\ ~rcv[c].multi) => CallSteps(c) < NWords + 2
          /\ TxSteps < NWords + 2
          /\ RxSteps < NWords + 3
          /\ SndSteps < NWords + 2)
    /\ [][/\ tx' # tx => (tx'.pc = "idle" \/ TxSteps' = TxSteps + 1)
          /\ rx' # rx => (rx'.pc = "idle" \/ RxSteps' = RxSteps + 1)
          /\ snd' # snd => (snd'.pc = "idle" \/ SndSteps' = SndSteps + 1)
          /\ \A c \in Receivers :
                (rcv'[c] # rcv[c] /\ ~rcv'[c].multi) =>
                    \/ rcv'[c].pc = "idle"
                    \/ CallSteps(c)' = (IF rcv[c].pc = "idle" THEN 0 ELSE CallSteps(c)) + 1]_vars

\* after the ring's run, a try_recv_info call has returned (Inconsistent) while
\* the register's producer stays in the middle of its data copy
C19_Witness ==
    /\ RingFinished
    /\ Returned("rx1") /\ ~rcv["rx1"].multi /\ rcv_res["rx1"] = "Inconsistent"
    /\ snd.pc = "data" /\ snd.w > 0

(* ------------------------------- C20 ----------------------------------- *)

\* lexicographic order on << timestamp, seqid >>
LexLess(a, b) ==
    \/ a.timestamp < b.timestamp
    \/ (a.timestamp = b.timestamp /\ a.seqid < b.seqid)

\* C20: across any sequence of log / log_same calls on one client, whose clock
\* never gives a smaller reading than the one before, the << timestamp, seqid >>
\* pairs stamped on the events are strictly increasing in lexicographic order
C20_LogOrdering ==
    \A i \in 1 .. (Len(stamped) - 1) : LexLess(stamped[i], stamped[i + 1])

(* ------------------------------- C21 ----------------------------------- *)

\* the record the last call handed to the backend
LastStamped == stamped[Len(stamped)]

\* C21: log(e) hands the backend {timestamp: t, seqid: 0, data: e} with t the
\* clock reading of the call and sets last_ts to (t, 0); log_same(e) hands the
\* backend {timestamp: t, seqid: s + 1, data: e} where (t, s) was last_ts and
\* sets last_ts to (t, s + 1); every call hands over exactly one record
C21_Stamping ==
    [][(log_call' # log_call \/ stamped' # stamped \/ last_ts' # last_ts) =>
        /\ Len(stamped') = Len(stamped) + 1
        /\ SubSeq(stamped', 1, Len(stamped)) = stamped
        /\ log_call'[1] = "log" =>
              /\ LastStamped' = [timestamp |-> clock', seqid |-> 0, data |-> log_call'[2]]
              /\ last_ts' = << clock', 0 >>
        /\ log_call'[1] = "log_same" =>
              /\ LastStamped' = [timestamp |-> last_ts[1], seqid |-> last_ts[2] + 1,
                                 data |-> log_call'[2]]
              /\ last_ts' = << last_ts[1], last_ts[2] + 1 >>]_vars

\* log(1) then log_same(2) twice: the third record carries seqid 2 and data 2
C21_Witness ==
    /\ Len(stamped) = 3
    /\ stamped[1].seqid = 0 /\ stamped[1].data = 1
    /\ stamped[3] = [timestamp |-> stamped[1].timestamp, seqid |-> 2, data |-> 2]
    /\ last_ts = << stamped[1].timestamp, 2 >>

(* ------------------------------- C22 ----------------------------------- *)

\* the records the backend holds anywhere behind the ring
Downstream == {rcvd[i] : i \in 1 .. Len(rcvd)} \cup {queue[i] : i \in 1 .. Len(queue)}
                \cup {logs[i] : i \in 1 .. Len(logs)}

\* record k is in no slot of the ring and nowhere behind it
Absent(k) ==
    /\ \A i \in 0 .. (RSIZE - 1), w \in Words : ring_data[i][w] # k
    /\ Rec(k) \notin Downstream

\* the ring holds RSIZE - 1 records that were not received yet
RingFull == Len(sent) - Len(rcvd) = RSIZE - 1

\* C22: when the ring has no free slot, DualThreadLogBacked::log returns the
\* transport's WouldBlock wrapped as a logger error, the call completes, the
\* record is enqueued nowhere and no slot, counter or earlier record changes;
\* a log call entered when the drain thread has freed a slot is accepted
C22_RingFull ==
    /\ [](/\ \A k \in 1 .. Len(log_rets) : log_rets[k] # Ok => Absent(k)
          /\ (tx.pc = "idle" /\ tx_res = "WouldBlock") => ENABLED LogReturn)
    /\ [][/\ (tx_res = "none" /\ tx_res' # "none") =>
                /\ RingFull <=> tx_res' = "WouldBlock"
                /\ ~RingFull <=> tx'.pc = "copy"
                /\ RingFull => UNCHANGED << ring_data, write_done_seqnum, read_done_seqnum,
                                            last_send_seqnum, sent, rcvd, queue, logs >>
          /\ log_rets' # log_rets =>
                /\ Len(log_rets') = Len(log_rets) + 1
                /\ SubSeq(log_rets', 1, Len(log_rets)) = log_rets
                /\ tx_res = "WouldBlock" =>
                      /\ log_rets'[Len(log_rets')] = Err(TransportWouldBlock("WouldBlock"))
                      /\ Len(sent) < Len(log_rets')
                /\ tx_res = "Ok" =>
                      /\ log_rets'[Len(log_rets')] = Ok
                      /\ sent[Len(sent)] = Len(log_rets')]_vars

\* the third log call found the ring full and got the error, the drain thread
\* then received a record, and the fourth log call was accepted
C22_Witness ==
    /\ Len(log_rets) = 4
    /\ log_rets[3] = Err(TransportWouldBlock("WouldBlock"))
    /\ log_rets[4] = Ok
    /\ sent = << 1, 2, 4 >>

(* ------------------------------- C23 ----------------------------------- *)

\* the thread has left its while loop for good
LeftLoop(pc) == pc \in {"closed", "done"}

C24_DropCompletes ==
    /\ [][/\ (~running_flag_alpha /\ alpha = "check" /\ alpha' # alpha) => alpha' = "exit"
          /\ (~running_flag_beta /\ beta = "check" /\ beta' # beta) => beta' = "closed"]_vars
    /\ (dropping = "join_alpha") ~> (alpha = "done" /\ ~running_flag_beta)
    /\ (dropping = "join_alpha") ~> (dropping = "dropped" /\ alpha = "done" /\ beta = "done")

\* drop has returned after two accepted log calls, with both threads ended
C24_Witness ==
    /\ dropping = "dropped"
    /\ alpha = "done" /\ beta = "done"
    /\ log_rets = << Ok, Ok >>

(* ------------------------------- C25 ----------------------------------- *)

\* the records log accepted, as the ring carries them
Accepted == [i \in 1 .. Len(sent) |-> Rec(sent[i])]

\* C25: by the time the writer thread exits, every record that log accepted
\* has been received from the ring by the drain thread and taken from the
\* channel into the writer's buffer
C25_NoOrphans ==
    beta = "done" => (rcvd = Accepted /\ queue = << >> /\ logs = Accepted)

(* ------------------------------- C26 ----------------------------------- *)

\* C26: in every writer cycle, if the buffer is non-empty and it holds at
\* least 5000 records or more than 5 s have passed since the last flush, every
\* buffered record is written to the sink and leaves the buffer and the
\* last-flush time is updated; otherwise nothing is written in that cycle
C26_FlushPolicy ==
    [][(beta = "flush" /\ beta' # beta) =>
        IF logs # << >> /\ (Len(logs) >= 5000 \/ elapsed)
        THEN sink' = sink \o logs /\ logs' = << >> /\ ~elapsed'
        ELSE sink' = sink /\ logs' = logs /\ elapsed' = elapsed]_vars

(* ------------------------------- C27 ----------------------------------- *)

\* every record the drain thread pushed into the channel, in the order pushed:
\* the writer moves records from the head of the channel to the end of its buffer
Pushed == logs \o queue

IsPrefix(a, b) == Len(a) <= Len(b) /\ SubSeq(b, 1, Len(a)) = a

\* C27: the records the drain thread received and pushed into the channel are
\* the records log accepted, each once and in the order accepted; the drain
\* thread leaves its inner loop only when try_recv returned WouldBlock; and
\* while the backend is alive every accepted record is eventually pushed (again
\* and again the drain thread has pushed all that was accepted so far)
C27_Drain ==
    /\ [](/\ IsPrefix(rcvd, Accepted)
          /\ IsPrefix(Pushed, rcvd)
          /\ Len(rcvd) - Len(Pushed) <= 1)
    /\ [][(alpha = "recv" /\ alpha' # alpha) =>
            (rx.pc = "idle" /\ rx_res = "WouldBlock" /\ alpha' = "sleep")]_vars
    /\ []<>(dropping # "alive" \/ Len(Pushed) = Len(sent))

\* three records were accepted and all three were pushed, in order, with the
\* backend alive and the writer holding two of them
C27_Witness ==
    /\ dropping = "alive"
    /\ Len(sent) = 3
    /\ Pushed = Accepted
    /\ Len(logs) = 2

(* ------------------------------- C28 ----------------------------------- *)

\* the step is the drop of holder h
Drops(h) == h \in holders /\ holders' = holders \ {h} /\ shm_res'.op = "drop"

\* the step is a call on named segments
ShmCall == shm_res'.n # shm_res.n

C29_ConnectNowhere ==
    [][(ShmCall /\ shm_res'.op = "connect" /\ shm_names[shm_res'.name] = 0) =>
        /\ shm_res'.res = Err(StdIoError("shm_open"))
        /\ holders' = holders
        /\ shm_names' = shm_names
        /\ shm_segs' = shm_segs]_vars

\* "a" was created and its owner dropped; the connect to "a" that followed
\* failed and left no holder and no name
C29_Witness ==
    /\ shm_res = [n |-> 3, op |-> "connect", name |-> "a",
                  res |-> Err(StdIoError("shm_open"))]
    /\ shm_segs = 1
    /\ holders = {}
    /\ shm_names = [n \in ShmNames |-> 0]

(* ------------------------------- C30 ----------------------------------- *)

IsSome(x) == x # None

\* the records pop_front returned, in the order returned
Delivered ==
    LET some == SelectSeq(popped, IsSome)
    IN  [i \in 1 .. Len(some) |-> some[i][1]]

\* the records of the successful log calls as the backend carries them, in the
\* order logged: the stamped records, or their numbers in the words of the ring
Logged ==
    IF backend = "MockThreadLogBacked"
    THEN [i \in 1 .. Len(sent) |-> Rec(stamped[sent[i]].data)]
    ELSE stamped

\* the records pop_front can return at once
Pending == IF backend = "MockThreadLogBacked" THEN queue_rx ELSE mock_queue

\* C30: over MockLogBacked and over MockThreadLogBacked, what pop_front has
\* returned followed by what it can return at once is a run of the successful
\* log calls' records from the first on, in the order logged, each once and
\* with the data logged (over MockLogBacked all of them); pop_front returns
\* the oldest pending record, or none when none is pending; and the thread of
\* MockThreadLogBacked makes every accepted record pending while the backend
\* is alive
C30_MockDelivery ==
    /\ [](/\ IsPrefix(Delivered \o Pending, Logged)
          /\ backend = "MockLogBacked" => Delivered \o Pending = Logged
          /\ \A i \in 1 .. Len(stamped) : stamped[i].data = i
          /\ sent = [i \in 1 .. Len(sent) |-> i])
    /\ [][Len(popped') > Len(popped) =>
            IF Pending = << >>
            THEN popped' = Append(popped, None) /\ Pending' = Pending
            ELSE popped' = Append(popped, Some(Head(Pending))) /\ Pending' = Tail(Pending)]_vars
    /\ []<>(\/ backend # "MockThreadLogBacked"
            \/ mock_drop # "alive"
            \/ Len(Delivered) + Len(Pending) = Len(sent))

\* the run of the test over MockThreadLogBacked: log, pop_front gives the
\* record, pop_front gives none, log, pop_front gives the second record
C30_Witness ==
    /\ backend = "MockThreadLogBacked"
    /\ popped = << Some(Rec(1)), None, Some(Rec(2)) >>
    /\ mock_drop = "alive"

\* the channel a step of the producer works on
SendChannel == IF snd.pc = "idle" THEN snd'.ch ELSE snd.ch

\* the producer's side of channel ch: begin, data, end and the counter
ChannelRegion(ch) == << begin[ch], data[ch], end[ch], seqnum[ch] >>

\* C31: SPMC channels are independent.  A step of send_info or send_slot(i)
\* changes begin, data, end and the producer's counter of its own channel only
\* and no receiver's last_seen or buffer; a step of a receive changes nothing of
\* the region and only that receiver's last_seen and buffer for its own
\* channel; so an attempt on a channel on which nothing was published since the
\* receiver's previous attempt there returned Ok or WouldBlock returns
\* WouldBlock whatever was published on the other channels, and an attempt
\* returns Ok only when its own channel holds a publication it had not received.
C31_ChannelsIndependent ==
    [][/\ snd' # snd =>
              /\ \A o \in Channels \ {SendChannel} : ChannelRegion(o)' = ChannelRegion(o)
              /\ UNCHANGED << last_read_success, lastcopy >>
       /\ \A c \in Receivers :
              rcv'[c] # rcv[c] =>
                  /\ UNCHANGED << begin, data, end, seqnum >>
                  /\ \A d \in Receivers, o \in Channels :
                         << d, o >> # << c, rcv'[c].ch >> =>
                             /\ last_read_success'[d][o] = last_read_success[d][o]
                             /\ lastcopy'[d][o] = lastcopy[d][o]
       /\ \A c \in Receivers :
              Completes(c) =>
                  /\ (quiet[c][rcv[c].ch] /\ calm[c]
                        /\ last_read_success[c][rcv[c].ch] # None) =>
                         rcv_res'[c] = "WouldBlock"
                  /\ rcv_res'[c] = "Ok" => got[c][rcv[c].ch] < Len(pub[rcv[c].ch])
      ]_vars

\* rx1 is about to complete an attempt on a channel on which it received the
\* latest publication and nothing was published since, while a send on another
\* channel is in progress
C31_Witness ==
    \E i \in Channels, j \in Channels :
        /\ i # j
        /\ rcv["rx1"].pc = "begin" /\ rcv["rx1"].ch = i
        /\ quiet["rx1"][i] /\ calm["rx1"]
        /\ last_read_success["rx1"][i] # None
        /\ SendingOn(j)

\* the step in which send returns WouldBlock, and the one in which try_recv does
SendBlocks == tx.pc = "idle" /\ tx' = tx /\ rx' = rx /\ tx_res' = "WouldBlock"
RecvBlocks == rx.pc = "loadread" /\ rx'.pc = "idle" /\ rx_res' = "WouldBlock"

\* C32: an SPSC operation that returns WouldBlock changes nothing.  The step in
\* which send returns WouldBlock leaves last_send_seqnum, write_done_seqnum,
\* read_done_seqnum and every data slot as they were, so a send that goes
\* through later fills the slot after write_done_seqnum; the steps of a try_recv
\* that returns WouldBlock leave read_done_seqnum, write_done_seqnum, the data
\* slots and the consumer's local copy as they were.
C32_WouldBlockChangesNothing ==
    /\ [](tx.pc # "idle" =>
              /\ tx.next_seqnum = (write_done_seqnum + 1) % RSIZE
              /\ last_send_seqnum = tx.next_seqnum)
    /\ [](tx.pc = "idle" => last_send_seqnum = write_done_seqnum)
    /\ [][SendBlocks =>
              UNCHANGED << last_send_seqnum, write_done_seqnum, read_done_seqnum,
                           ring_data, sent, last_copy, last_read_seqnum >>]_vars
    /\ [][(RecvBlocks \/ (rx.pc = "idle" /\ rx'.pc = "loadread")) =>
              UNCHANGED << read_done_seqnum, write_done_seqnum, ring_data,
                           last_copy, last_read_seqnum, last_send_seqnum, rcvd >>]_vars

\* a try_recv on the empty ring has returned WouldBlock, and after RSIZE - 1
\* sends a send on the full ring has returned WouldBlock
C32_Witness ==
    /\ tx_res = "WouldBlock" /\ tx.pc = "idle"
    /\ rx_res = "WouldBlock" /\ rx.pc = "idle"
    /\ Len(sent) = RSIZE - 1 /\ Len(rcvd) = 0
    /\ loadAt = << RSIZE - 1, 0 >>

\* the drain thread holds the result of a try_recv that has returned
AlphaMatches == alpha = "recv" /\ rx.pc = "idle" /\ rx_res # "none"

\* C33: the unreachable!() arm of a drain thread is never reached.  Whenever a
\* try_recv has returned, it returned a record or WouldBlock, and whenever a send
\* has returned, it returned Ok or WouldBlock; so the drain thread's match on
\* the result of try_recv always takes its Ok arm or its WouldBlock arm, and log
\* always has a result to hand back.
C33_UnreachableArms ==
    /\ rx.pc = "idle" => rx_res \in {"none", "Ok", "WouldBlock"}
    /\ rx.pc # "idle" => rx_res = "running"
    /\ tx.pc = "idle" => tx_res \in {"none", "Ok", "WouldBlock"}
    /\ tx.pc # "idle" => tx_res = "running"
    /\ AlphaMatches => ENABLED (AlphaOk \/ AlphaWouldBlock)
    /\ (tx.pc = "idle" /\ tx_res # "none") => ENABLED LogReturn

\* the drain thread holds a record its try_recv returned while a log call holds
\* the WouldBlock its send returned on the full ring
C33_Witness ==
    /\ AlphaMatches /\ rx_res = "Ok"
    /\ tx.pc = "idle" /\ tx_res = "WouldBlock"
    /\ Len(sent) >= RSIZE - 1

\* the records sent and not yet received
Unreceived == Len(sent) - Len(rcvd)

\* C34: SPSC counter invariant.  read_done_seqnum and write_done_seqnum are in
\* [0, R); the number of unreceived records equals (write_done_seqnum -
\* read_done_seqnum) mod R and is at most R - 1; last_send_seqnum equals
\* write_done_seqnum whenever no send is in progress; every slot index a send or
\* a try_recv uses is in [0, R).
C34_Counters ==
    /\ read_done_seqnum \in 0 .. (RSIZE - 1)
    /\ write_done_seqnum \in 0 .. (RSIZE - 1)
    /\ last_send_seqnum \in 0 .. (RSIZE - 1)
    /\ Unreceived = (write_done_seqnum - read_done_seqnum) % RSIZE
    /\ Unreceived <= RSIZE - 1
    /\ tx.pc = "idle" => last_send_seqnum = write_done_seqnum
    /\ tx.pc # "idle" => tx.next_seqnum \in 0 .. (RSIZE - 1)
    /\ rx.pc \in {"copy", "store"} => rx.next_read \in 0 .. (RSIZE - 1)
    /\ DOMAIN ring_data = 0 .. (RSIZE - 1)

\* the ring is full after both counters have wrapped: more than R records were
\* sent, R - 1 of them are unreceived, and write_done_seqnum is below read_done_seqnum
C34_Witness ==
    /\ tx.pc = "idle" /\ rx.pc = "idle"
    /\ Len(sent) > RSIZE
    /\ Unreceived = RSIZE - 1
    /\ write_done_seqnum < read_done_seqnum

\* C35: SPSC progress.  With a consumer that keeps calling try_recv, every
\* record a send has accepted is eventually returned by a try_recv; and with a
\* producer that keeps retrying, a send that returned WouldBlock is eventually
\* followed by a send that returns Ok.
C35_Progress ==
    /\ \A k \in 1 .. MaxRingSends : (Len(sent) >= k) ~> (Len(rcvd) >= k)
    /\ (tx.pc = "idle" /\ tx_res = "WouldBlock") ~> (tx_res = "Ok")

\* a send has returned WouldBlock on the full ring, and the consumer has
\* received a record since that send loaded read_done_seqnum
C35_Witness ==
    /\ tx.pc = "idle" /\ tx_res = "WouldBlock"
    /\ loadAt = << RSIZE - 1, 0 >>
    /\ Len(sent) = RSIZE - 1 /\ Len(rcvd) = 1

\* C36: SPSC get_last_value returns none before the consumer's first
\* successful try_recv and, once a try_recv has returned a record, returns the
\* record most recently received.
C36_GetLastValue ==
    /\ Len(rcvd) = 0 => get_last_value = None
    /\ (Len(rcvd) > 0 /\ rx.pc = "idle") => get_last_value = Some(rcvd[Len(rcvd)])

\* the first send on ch has completed: its end is stored
FirstSendDone(ch) == Len(pub[ch]) > 1 \/ (Len(pub[ch]) = 1 /\ ~SendingOn(ch))

\* the step in which a receive attempt of c starts: the load of end
Starts(c) == rcv[c].pc \in {"idle", "end"} /\ rcv'[c].pc = "data"

\* C37: once the first send on an SPMC channel has completed, end and begin of
\* the channel carry the GOOD bit for good, also when the counter rolls over to
\* 0; an attempt that starts afterwards loads such an end, and an attempt that
\* loaded such an end does not complete with Unitialized, whichever receiver or
\* clone makes it and however many sends follow.
C37_NoUninitAfterSend ==
    /\ [](\A ch \in Channels :
            /\ FirstSendDone(ch) <=> BitAnd(end[ch], GOOD_BIT) # 0
            /\ FirstSendDone(ch) => BitAnd(begin[ch], GOOD_BIT) # 0)
    /\ [][\A c \in Receivers :
            /\ (Starts(c) /\ FirstSendDone(rcv'[c].ch)) =>
                   BitAnd(rcv'[c].end, GOOD_BIT) # 0
            /\ (Completes(c) /\ BitAnd(rcv[c].end, GOOD_BIT) # 0) =>
                   rcv_res'[c] # "Unitialized"
            /\ (rcv[c].pc # "idle" /\ rcv'[c].pc # "idle" /\ ~Starts(c)) =>
                   rcv'[c].end = rcv[c].end]_vars

\* the clone rx2, made after the counter rolled over to 0, has completed an
\* attempt with Ok on the publication whose counter is 0
C37_Witness ==
    /\ seqnum[0] = 0 /\ end[0] = GOOD_BIT
    /\ last_read_success["rx1"][0] = Some(2 * GOOD_BIT - 1)
    /\ Returned("rx2") /\ rcv_res["rx2"] = "Ok"
    /\ last_read_success["rx2"][0] = Some(GOOD_BIT)

\* at the load of begin that completes c's attempt: a send on the attempt's
\* channel was in progress at some moment since the attempt's load of end (the
\* producer took a step on the channel since then, or is part-way through now)
Overlapped(c) == ~calm[c] \/ SendingOn(rcv[c].ch)

\* C38: an SPMC receive attempt finds begin != end, and returns Inconsistent,
\* only if a send on its channel was in progress at some moment between its
\* load of end and its load of begin; an attempt no send overlaps does not
\* return Inconsistent and leaves a set last_seen set.
C38_InconsistentOnlyOnOverlap ==
    [][\A c \in Receivers :
          LET ch == rcv[c].ch
          IN  Completes(c) =>
                  /\ (begin[ch] # rcv[c].end \/ rcv_res'[c] = "Inconsistent") =>
                         Overlapped(c)
                  /\ ~Overlapped(c) =>
                         /\ rcv_res'[c] \in {"Ok", "WouldBlock", "Unitialized"}
                         /\ last_read_success[c][ch] # None =>
                                last_read_success'[c][ch] # None
                  /\ (last_read_success[c][ch] # None
                        /\ last_read_success'[c][ch] = None) => Overlapped(c)]_vars

\* an attempt of a receiver that had received the first publication returned
\* Inconsistent and cleared last_seen: it loaded the first publication's end,
\* and the second send ran from its store of begin to its store of end before
\* the attempt's call returned
C38_Witness ==
    \E c \in Receivers :
        LET ch == rcv[c].ch
        IN  /\ Returned(c) /\ rcv_res[c] = "Inconsistent"
            /\ Len(pub[ch]) = 2 /\ ~SendingOn(ch)
            /\ rcv[c].end = TagOfPub(1)
            /\ got[c][ch] = 1
            /\ last_read_success[c][ch] = None

\* the << timestamp, seqid >> a stamped record carries
StampOf(e) == << e.timestamp, e.seqid >>

\* C39: LogClient sets last_ts before it calls the backend, so a call the
\* backend rejects has advanced the client's state: a log_same that follows a
\* rejected log_same carries the rejected seqid plus one, and the << timestamp,
\* seqid >> of a rejected log_same (its seqid is above 0) is carried by no later
\* event.
C39_RejectedStampNotReused ==
    [][stamped' # stamped =>
          /\ last_ts' = StampOf(LastStamped')
          /\ (log_res = "Err" /\ log_call[1] = "log_same" /\ log_call'[1] = "log_same") =>
                 StampOf(LastStamped') = << LastStamped.timestamp, LastStamped.seqid + 1 >>
          /\ \A p \in rejected : p[2] > 0 => StampOf(LastStamped') # p]_vars

\* g is, among the holders H, the owner made by the latest create of its name
LatestOwnerIn(H, g) ==
    /\ g \in H /\ g.role = "Owner"
    /\ \A o \in H : (o.role = "Owner" /\ o.name = g.name) => o.id <= g.id

\* C40: while an owner holder made by create(name) is alive, the name exists
\* and maps that owner's segment, so that an attach by the name can succeed and
\* maps that segment: a create that returns Ok leaves the name on the new
\* owner's segment, and no call other than a create of the name takes the name
\* off the segment of the latest owner while that owner is alive, the drop of
\* an earlier owner holder of the same name included.
C40_AttachWhileOwnerAlive ==
    [][ShmCall =>
          \A g \in holders' :
              LatestOwnerIn(holders', g) =>
                  /\ g \notin holders => shm_names'[g.name] = g.seg
                  /\ (g \in holders /\ shm_names[g.name] = g.seg
                        /\ shm_res'.op # "create") =>
                         /\ shm_names'[g.name] = g.seg
                         /\ "ok" \in ConnectOutcomes(g.name)']_vars

====
